---------------------------- MODULE Spec2Model ----------------------------
(***************************************************************************)
(* uwsm: the environment capture / diff / export / cleanup protocol and    *)
(* the cleanup ledger (src/uwsm/main.py, src/uwsm/dbus.py,                 *)
(* src/uwsm/misc.py).                                                      *)
(*                                                                         *)
(* Environments are Python dicts: functions from a finite set of variable  *)
(* names to values.  A ledger file is the sequence of its lines.           *)
(***************************************************************************)
EXTENDS Naturals, Sequences, FiniteSets, TLC

VARIABLES
    sysenv,     \* systemd user manager's activation environment (a dict)
    dbusenv,    \* D-Bus activation environment (used when dbus is not dbus-broker)
    dbus_unit,  \* Id of dbus.service as reported by the service manager
    ledger,     \* env_cleanup_<wm_id>.list per compositor id: NoFile or its lines
    envsvc,     \* state of wayland-wm-env@<id>.service (oneshot, RemainAfterExit)
    unit,       \* state of wayland-wm@<id>.service
    watcher,    \* per id: env_pre snapshot held by the forked readiness watcher, or NoWatch
    last,       \* what the most recent handler run did (its calls and its exit)
    nops,       \* number of handler runs so far
    cap,        \* locals of one prepare_env run (env_pre, env_post, set_env, unset_varnames)
    esc,        \* one simple_systemd_escape call and the unescaping of its result
    tree,       \* unit files under the user's runtime unit directory (a dict: path to data)
    run,        \* the "uwsm start" or "uwsm stop" process: arguments, position, UnitsState.changed
    passes,     \* number of start and stop commands begun so far
    stoppers,   \* concurrent "uwsm stop" processes: position and locals of stop_wm
    stop_jobs,  \* per compositor unit: whether a stop job is queued, and how many were asked for
    holder,     \* the session holder forked by "uwsm start", and its parent process
    starters,   \* concurrent "uwsm start" processes: position, arguments, what they saw
    wenv,       \* one waitenv call: arguments, locals, the listings it made, how it ended
    jobw,       \* one wait for a job of the service manager: the job, the listings made, how it ended
    uc,         \* one update_unit or remove_unit call on a unit path given as a string
    rm,         \* one remove_units call on a unit directory with files of other origins
    graph,      \* the generated units as the service manager runs them: active, failed, jobs queued
    sm,         \* a "uwsm stop" process, step by step
    ss,         \* one session step by step: the ledger appends and the exports of prepare_env, finalize, the watcher
    fk          \* a fork of "uwsm start" or "uwsm aux exec": the child and the parent, statement by statement

session_state ==
    <<sysenv, dbusenv, dbus_unit, ledger, envsvc, unit, watcher, last, nops, cap>>

escape_state == <<esc>>

units_state == <<tree, run, passes>>

stop_state == <<stoppers, stop_jobs>>

wait_state == <<holder, starters, wenv, jobw, uc, rm, graph, sm, ss, fk>>

vars == <<session_state, escape_state, units_state, stop_state, wait_state>>

----------------------------------------------------------------------------
(* Bounds *)

\* the probe changes (sets or unsets) at most this many variables of env_pre
MaxProbeChanges == 2

\* handler runs per behaviour of the session model
MaxOps == 4

----------------------------------------------------------------------------
(* Variable names and values *)

VarUniverse ==
    {"XDG_VTNR", "XDG_SESSION_ID", "PWD", "WAYLAND_DISPLAY",
     "SSH_AUTH_SOCK", "FOO", "_"}

Values == {"1", "2"}

\* the characters of the names of the model (VarUniverse and the policy sets),
\* as Python sees them
CharsOf(name) ==
    CASE name = "XDG_VTNR"            -> <<"X","D","G","_","V","T","N","R">>
      [] name = "XDG_SESSION_ID"      -> <<"X","D","G","_","S","E","S","S","I","O","N","_","I","D">>
      [] name = "PWD"                 -> <<"P","W","D">>
      [] name = "WAYLAND_DISPLAY"     -> <<"W","A","Y","L","A","N","D","_","D","I","S","P","L","A","Y">>
      [] name = "SSH_AUTH_SOCK"       -> <<"S","S","H","_","A","U","T","H","_","S","O","C","K">>
      [] name = "FOO"                 -> <<"F","O","O">>
      [] name = "_"                   -> <<"_">>
      [] name = "XDG_SESSION_TYPE"    -> <<"X","D","G","_","S","E","S","S","I","O","N","_","T","Y","P","E">>
      [] name = "XDG_CURRENT_DESKTOP" -> <<"X","D","G","_","C","U","R","R","E","N","T","_","D","E","S","K","T","O","P">>
      [] name = "XDG_SESSION_DESKTOP" -> <<"X","D","G","_","S","E","S","S","I","O","N","_","D","E","S","K","T","O","P">>
      [] name = "XDG_MENU_PREFIX"     -> <<"X","D","G","_","M","E","N","U","_","P","R","E","F","I","X">>
      [] name = "PATH"                -> <<"P","A","T","H">>
      [] name = "LS_COLORS"           -> <<"L","S","_","C","O","L","O","R","S">>
      [] name = "INVOCATION_ID"       -> <<"I","N","V","O","C","A","T","I","O","N","_","I","D">>
      [] name = "SHLVL"               -> <<"S","H","L","V","L">>
      [] name = "SHELL"               -> <<"S","H","E","L","L">>
      [] name = "DISPLAY"             -> <<"D","I","S","P","L","A","Y">>
      [] name = "XCURSOR_THEME"       -> <<"X","C","U","R","S","O","R","_","T","H","E","M","E">>
      [] name = "XCURSOR_SIZE"        -> <<"X","C","U","R","S","O","R","_","S","I","Z","E">>
      [] name = "LANG"                -> <<"L","A","N","G">>
      [] name = "SSH_AGENT_LAUNCHER"  -> <<"S","S","H","_","A","G","E","N","T","_","L","A","U","N","C","H","E","R">>
      [] name = "SSH_AGENT_PID"       -> <<"S","S","H","_","A","G","E","N","T","_","P","I","D">>

\* the characters the names are made of, in code point order
CharOrder ==
    <<"0","1","2","3","4","5","6","7","8","9",
      "A","B","C","D","E","F","G","H","I","J","K","L","M",
      "N","O","P","Q","R","S","T","U","V","W","X","Y","Z",
      "_",
      "a","b","c","d","e","f","g","h","i","j","k","l","m",
      "n","o","p","q","r","s","t","u","v","w","x","y","z">>

Code(c) == CHOOSE i \in 1..Len(CharOrder) : CharOrder[i] = c

Digits == {CharOrder[i] : i \in 1..10}
Letters == {CharOrder[i] : i \in (11..36) \cup (38..63)}

WordChars == Letters \cup Digits \cup {"_"}

\* Val.sh_varname on the characters s of a name:
\* \A([a-zA-Z_][a-zA-Z0-9_]+|[a-zA-Z][a-zA-Z0-9_]*)\Z
sh_varname_match(s) ==
    \/ /\ Len(s) >= 2
       /\ s[1] \in Letters \cup {"_"}
       /\ \A i \in 2..Len(s) : s[i] \in WordChars
    \/ /\ Len(s) >= 1
       /\ s[1] \in Letters
       /\ \A i \in 2..Len(s) : s[i] \in WordChars

\* Val.sh_varname.search(name)
sh_varname(name) == sh_varname_match(CharsOf(name))

\* Python's str comparison on the characters of two names: lexicographic
\* by code point
SeqLess(s, t) ==
    \/ \E i \in 1..Len(s) :
          /\ i <= Len(t)
          /\ \A j \in 1..(i-1) : s[j] = t[j]
          /\ Code(s[i]) < Code(t[i])
    \/ /\ Len(s) < Len(t)
       /\ \A j \in 1..Len(s) : s[j] = t[j]

StrLess(a, b) == SeqLess(CharsOf(a), CharsOf(b))

\* the names of S in ascending order
Ascending(S) ==
    [i \in 1..Cardinality(S) |->
        CHOOSE n \in S : Cardinality({m \in S : StrLess(m, n)}) = i - 1]

----------------------------------------------------------------------------
(* Policy sets *)

always_export ==
    {"XDG_SESSION_ID", "XDG_SESSION_TYPE", "XDG_VTNR", "XDG_CURRENT_DESKTOP",
     "XDG_SESSION_DESKTOP", "XDG_MENU_PREFIX", "PATH"}

never_export == {"PWD", "LS_COLORS", "INVOCATION_ID", "SHLVL", "SHELL"}

always_unset == {"DISPLAY", "WAYLAND_DISPLAY"}

always_cleanup ==
    {"DISPLAY", "WAYLAND_DISPLAY", "XDG_SESSION_ID", "XDG_SESSION_TYPE",
     "XDG_VTNR", "XDG_CURRENT_DESKTOP", "XDG_SESSION_DESKTOP",
     "XDG_MENU_PREFIX", "PATH", "XCURSOR_THEME", "XCURSOR_SIZE", "LANG"}

never_cleanup == {"SSH_AGENT_LAUNCHER", "SSH_AUTH_SOCK", "SSH_AGENT_PID"}

\* every name of the model, in ascending order
AllNames ==
    VarUniverse \cup always_export \cup never_export \cup always_unset
        \cup always_cleanup \cup never_cleanup

NamesInOrder == Ascending(AllNames)

\* sorted(names): the names of S in the order of NamesInOrder
sorted(S) == SelectSeq(NamesInOrder, LAMBDA n : n \in S)

\* the names Val.sh_varname matches
ValidVarnames == {name \in AllNames : sh_varname(name)}

----------------------------------------------------------------------------
(* Dicts *)

EmptyDict == [n \in {} |-> "1"]

Keys(d) == DOMAIN d

\* set(d.items())
Items(d) == {<<n, d[n]>> : n \in DOMAIN d}

\* dict(pairs)
DictOf(pairs) ==
    [n \in {p[1] : p \in pairs} |-> (CHOOSE p \in pairs : p[1] = n)[2]]

Restrict(d, S) == [n \in S \cap DOMAIN d |-> d[n]]

\* d.update(e)
Update(d, e) ==
    [n \in DOMAIN d \cup DOMAIN e |-> IF n \in DOMAIN e THEN e[n] ELSE d[n]]

\* d.pop(var) for every var of S that d holds
PopAll(d, S) == [n \in DOMAIN d \ S |-> d[n]]

\* filter_varnames on a dict
filter_varnames_dict(data) ==
    Restrict(data, {var \in DOMAIN data : var \in ValidVarnames})

\* filter_varnames on a set of names
filter_varnames_set(data) == {var \in data : var \in ValidVarnames}


----------------------------------------------------------------------------
(* prepare_env: the diff between the activation environment and the probe *)

VTs == {1, 2}
Sessions == {"1", "2"}

override_identity_skipped(env_pre, v_term, session_id) == env_pre

\* env_pre after the XDG_VTNR / XDG_SESSION_ID override
override_identity(env_pre, v_term, session_id) ==
    Update(env_pre,
           [n \in {"XDG_VTNR", "XDG_SESSION_ID"} |->
               IF n = "XDG_VTNR" THEN ToString(v_term) ELSE session_id])

\* raw difference dict between env_post and env_pre
raw_set_env_by_name(env_post, env_pre) ==
    Restrict(env_post, Keys(env_post) \ Keys(env_pre))

raw_set_env(env_post, env_pre) ==
    DictOf(Items(env_post) \ Items(env_pre))

\* add "always_export" vars from env_post to set_env
force_export_skipped(set_env, env_post) == set_env

force_export(set_env, env_post) ==
    Update(set_env,
           Restrict(env_post, (always_export \ never_export) \ always_unset))

\* remove "never_export" and "always_unset" vars from set_env
exclude_export_skipped(set_env) == set_env

exclude_export_never_export_only(set_env) == PopAll(set_env, never_export)

exclude_export(set_env) == PopAll(set_env, never_export \cup always_unset)

set_env_of(env_post, env_pre) ==
    exclude_export(force_export(raw_set_env(env_post, env_pre), env_post))

\* set of varnames to remove from systemd user manager
unset_varnames_raw_only(env_pre, env_post, systemd_varnames) ==
    (Keys(env_pre) \ Keys(env_post)) \cap systemd_varnames

unset_varnames_of(env_pre, env_post, systemd_varnames) ==
    ((Keys(env_pre) \ Keys(env_post)) \cup always_unset) \cap systemd_varnames

\* set of vars to remove from systemd user manager on shutdown
cleanup_varnames_of(set_env) ==
    (Keys(set_env) \cup always_cleanup) \ never_cleanup

\* what the shell probe can turn its environment into: at most k variables
\* of env set to another value, added or removed ("env -0" prints the result)
NoValue == "<unset>"

ApplyChanges(env, ch) ==
    [n \in (DOMAIN env \cup {m \in DOMAIN ch : ch[m] # NoValue})
           \ {m \in DOMAIN ch : ch[m] = NoValue}
        |-> IF n \in DOMAIN ch THEN ch[n] ELSE env[n]]

ProbeResults(env, k) ==
    {ApplyChanges(env, ch) :
        ch \in UNION {[S -> Values \cup {NoValue}] :
                        S \in {T \in SUBSET VarUniverse : Cardinality(T) <= k}}}

----------------------------------------------------------------------------
(* The cleanup ledger: env_cleanup_<wm_id>.list *)

WmIds == {"sway", "labwc"}

\* a file: whether it exists, and its lines
NoFile == [exists |-> FALSE, lines |-> << >>]

FileOf(lines) == [exists |-> TRUE, lines |-> lines]

\* {l.strip() for l in readlines() if l.strip()} of an existing ledger file
LinesOf(file) == {file.lines[i] : i \in 1..Len(file.lines)}

\* the names append_to_cleanup_file keeps of its varnames argument
append_filtered_unfiltered(varnames, skip_always_cleanup) ==
    filter_varnames_set(varnames)

append_filtered(varnames, skip_always_cleanup) ==
    IF skip_always_cleanup
    THEN filter_varnames_set((varnames \ never_cleanup) \ always_cleanup)
    ELSE filter_varnames_set(varnames \ never_cleanup)

\* append_to_cleanup_file once varnames is filtered down to names: the file
\* afterwards, the exception raised if any, whether the file was written
append_names_overwrite(file, names, create) ==
    IF names = {} THEN [file |-> file, raised |-> "none", wrote |-> FALSE]
    ELSE IF ~file.exists /\ ~create
    THEN [file |-> file, raised |-> "FileNotFoundError", wrote |-> FALSE]
    ELSE [file |-> FileOf(sorted(names)), raised |-> "none", wrote |-> TRUE]

append_names(file, names, create) ==
    IF names = {}
    THEN [file |-> file, raised |-> "none", wrote |-> FALSE]
    ELSE IF ~file.exists
    THEN IF ~create
         THEN [file |-> file, raised |-> "FileNotFoundError", wrote |-> FALSE]
         ELSE [file |-> FileOf(sorted(names)), raised |-> "none", wrote |-> TRUE]
    ELSE IF names \ filter_varnames_set(LinesOf(file)) # {}
    THEN [file |-> FileOf(file.lines
                            \o sorted(names \ filter_varnames_set(LinesOf(file)))),
          raised |-> "none", wrote |-> TRUE]
    ELSE [file |-> file, raised |-> "none", wrote |-> FALSE]

append_to_cleanup_file(file, varnames, skip_always_cleanup, create) ==
    append_names(file, append_filtered(varnames, skip_always_cleanup), create)

\* the record of an append_to_cleanup_file call: the file before, the
\* argument, the names left of it after filtering, and the result r
AppendRecord(id, before, varnames, names, r) ==
    [called |-> TRUE, id |-> id, before |-> before, given |-> varnames,
     names |-> names, after |-> r.file, wrote |-> r.wrote, raised |-> r.raised]

AppendCall(id, before, varnames, skip_always_cleanup, create) ==
    AppendRecord(id, before, varnames,
                 append_filtered(varnames, skip_always_cleanup),
                 append_to_cleanup_file(before, varnames, skip_always_cleanup,
                                        create))

NoAppend ==
    [called |-> FALSE, id |-> "", before |-> NoFile, given |-> {}, names |-> {},
     after |-> NoFile, wrote |-> FALSE, raised |-> "none"]

----------------------------------------------------------------------------
(* Service manager and message bus: the activation environments *)

DbusUnits == {"dbus-broker.service", "dbus.service"}

\* DbusInteractions.set_systemd_vars: SetEnvironment(["var=value", ...])
SetEnvironment(env, vars_dict) == Update(env, vars_dict)

\* DbusInteractions.unset_systemd_vars: UnsetEnvironment([names])
UnsetEnvironment(env, vars_list) == PopAll(env, vars_list)

\* DbusInteractions.set_dbus_vars: UpdateActivationEnvironment(map)
UpdateActivationEnvironment(env, vars_dict) == Update(env, vars_dict)

\* set_systemd_vars: the D-Bus activation environment after the call
set_systemd_vars_dbus(denv, dunit, vars_dict) ==
    IF dunit # "dbus-broker.service"
    THEN UpdateActivationEnvironment(denv, vars_dict)
    ELSE denv

\* unset_systemd_vars: the D-Bus activation environment after the call
unset_systemd_vars_dbus(denv, dunit, vars_list) ==
    IF dunit # "dbus-broker.service"
    THEN UpdateActivationEnvironment(denv, [var \in vars_list |-> ""])
    ELSE denv

\* a call to SetEnvironment / UnsetEnvironment: whether made, and its argument
NoSet == [called |-> FALSE, arg |-> EmptyDict]
SetCall(vars_dict) == [called |-> TRUE, arg |-> vars_dict]
NoUnset == [called |-> FALSE, arg |-> {}]
UnsetCall(vars_list) == [called |-> TRUE, arg |-> vars_list]

----------------------------------------------------------------------------
(* cleanup_env *)

\* where a call to the service manager fails, if any
CleanupFaults == {"none", "rpc_get", "rpc_unset"}

\* cleanup files found in the runtime directory
cleanup_files(led) == {id \in WmIds : led[id].exists}

\* names read from the found cleanup files
current_cleanup_varnames(led) ==
    UNION {LinesOf(led[id]) : id \in cleanup_files(led)}

\* names cleanup_env removes from the systemd user manager
cleanup_env_varnames_no_intersect(led, systemd_varnames) ==
    (current_cleanup_varnames(led) \cup always_cleanup) \ never_cleanup

cleanup_env_varnames(led, systemd_varnames) ==
    ((current_cleanup_varnames(led) \cup always_cleanup) \ never_cleanup)
        \cap systemd_varnames

\* what a cleanup_env call did: the files found, the names read from them,
\* the names the service manager held, the environment before and after,
\* the UnsetEnvironment call, and the returned bool or that it raised
CleanupRecord(env, denv, led, env_after, denv_after, led_after, unset_req, raised, ret) ==
    [called |-> TRUE, found |-> cleanup_files(led),
     read |-> current_cleanup_varnames(led), held |-> Keys(env),
     env_before |-> env, env |-> env_after, dbus |-> denv_after,
     ledger |-> led_after, unset_req |-> unset_req, raised |-> raised,
     ret |-> ret]

NoCleanup ==
    [called |-> FALSE, found |-> {}, read |-> {}, held |-> {},
     env_before |-> EmptyDict, env |-> EmptyDict, dbus |-> EmptyDict,
     ledger |-> [id \in WmIds |-> NoFile], unset_req |-> NoUnset,
     raised |-> FALSE, ret |-> FALSE]

\* cleanup_env, given the names it computed
cleanup_env_steps_keep_files(env, denv, dunit, led, fault, names) ==
    IF cleanup_files(led) = {}
    THEN CleanupRecord(env, denv, led, env, denv, led, NoUnset, FALSE, FALSE)
    ELSE IF fault = "rpc_get"
    THEN CleanupRecord(env, denv, led, env, denv, led, NoUnset, TRUE, FALSE)
    ELSE IF names = {}
    THEN CleanupRecord(env, denv, led, env, denv, led, NoUnset, FALSE, TRUE)
    ELSE IF fault = "rpc_unset"
    THEN CleanupRecord(env, denv, led, env,
                       unset_systemd_vars_dbus(denv, dunit, names), led,
                       UnsetCall(names), TRUE, FALSE)
    ELSE CleanupRecord(env, denv, led, UnsetEnvironment(env, names),
                       unset_systemd_vars_dbus(denv, dunit, names), led,
                       UnsetCall(names), FALSE, TRUE)

cleanup_env_steps_ret_if_unset(env, denv, dunit, led, fault, names) ==
    IF cleanup_files(led) = {}
    THEN CleanupRecord(env, denv, led, env, denv, led, NoUnset, FALSE, FALSE)
    ELSE IF fault = "rpc_get"
    THEN CleanupRecord(env, denv, led, env, denv, led, NoUnset, TRUE, FALSE)
    ELSE IF names = {}
    THEN CleanupRecord(env, denv, led, env, denv,
                       [id \in WmIds |-> NoFile], NoUnset, FALSE, FALSE)
    ELSE IF fault = "rpc_unset"
    THEN CleanupRecord(env, denv, led, env,
                       unset_systemd_vars_dbus(denv, dunit, names), led,
                       UnsetCall(names), TRUE, FALSE)
    ELSE CleanupRecord(env, denv, led, UnsetEnvironment(env, names),
                       unset_systemd_vars_dbus(denv, dunit, names),
                       [id \in WmIds |-> NoFile], UnsetCall(names), FALSE, TRUE)

cleanup_env_steps_remove_first(env, denv, dunit, led, fault, names) ==
    IF cleanup_files(led) = {}
    THEN CleanupRecord(env, denv, led, env, denv, led, NoUnset, FALSE, FALSE)
    ELSE IF fault = "rpc_get"
    THEN CleanupRecord(env, denv, led, env, denv, led, NoUnset, TRUE, FALSE)
    ELSE IF names = {}
    THEN CleanupRecord(env, denv, led, env, denv,
                       [id \in WmIds |-> NoFile], NoUnset, FALSE, TRUE)
    ELSE IF fault = "rpc_unset"
    THEN CleanupRecord(env, denv, led, env,
                       unset_systemd_vars_dbus(denv, dunit, names),
                       [id \in WmIds |-> NoFile], UnsetCall(names), TRUE, FALSE)
    ELSE CleanupRecord(env, denv, led, UnsetEnvironment(env, names),
                       unset_systemd_vars_dbus(denv, dunit, names),
                       [id \in WmIds |-> NoFile], UnsetCall(names), FALSE, TRUE)

cleanup_env_steps(env, denv, dunit, led, fault, names) ==
    IF cleanup_files(led) = {}
    THEN CleanupRecord(env, denv, led, env, denv, led, NoUnset, FALSE, FALSE)
    ELSE IF fault = "rpc_get"
    THEN CleanupRecord(env, denv, led, env, denv, led, NoUnset, TRUE, FALSE)
    ELSE IF names = {}
    THEN CleanupRecord(env, denv, led, env, denv,
                       [id \in WmIds |-> NoFile], NoUnset, FALSE, TRUE)
    ELSE IF fault = "rpc_unset"
    THEN CleanupRecord(env, denv, led, env,
                       unset_systemd_vars_dbus(denv, dunit, names), led,
                       UnsetCall(names), TRUE, FALSE)
    ELSE CleanupRecord(env, denv, led, UnsetEnvironment(env, names),
                       unset_systemd_vars_dbus(denv, dunit, names),
                       [id \in WmIds |-> NoFile], UnsetCall(names), FALSE, TRUE)

\* cleanup_env on the activation environments (env, denv) and the runtime
\* directory's cleanup files led
cleanup_env(env, denv, dunit, led, fault) ==
    cleanup_env_steps(env, denv, dunit, led, fault,
                      cleanup_env_varnames(led, Keys(env)))

----------------------------------------------------------------------------
(* prepare_env *)

\* where prepare_env fails, if anywhere:
\*   rpc_get     get_systemd_vars raises
\*   no_vt       get_fg_vt returns None
\*   no_session  get_session_by_vt returns None
\*   no_sh       which("sh") finds nothing
\*   no_mark     the random mark is not in the probe's stdout
\*   sh_nonzero  the probe returns non-zero
\*   ledger_io   the cleanup file cannot be written (OSError)
\*   rpc_set     SetEnvironment raises
\*   rpc_unset   UnsetEnvironment raises
PrepareFaults ==
    {"none", "rpc_get", "no_vt", "no_session", "no_sh", "no_mark",
     "sh_nonzero", "ledger_io", "rpc_set", "rpc_unset"}

\* faults that strike before the shell probe is run
PreProbeFaults == {"rpc_get", "no_vt", "no_session", "no_sh"}

\* faults that strike before env_post is parsed
EarlyFaults == PreProbeFaults \cup {"no_mark", "sh_nonzero"}

\* what a prepare_env call did: outcome is "ok" (returned), "raised" (an
\* Exception left it) or "exit1" (sys.exit(1)); env, dbus and file are the
\* activation environments and the cleanup file afterwards
PrepareRecord(outcome, probed, env, denv, app, set_env, unset_varnames, set_req, unset_req) ==
    [outcome |-> outcome, probed |-> probed, env |-> env, dbus |-> denv,
     file |-> app.after, append |-> app, set_env |-> set_env,
     unset_varnames |-> unset_varnames, set_req |-> set_req,
     unset_req |-> unset_req]

\* an append_to_cleanup_file call that was not made and leaves file as it is
NotAppended(file) == [NoAppend EXCEPT !.before = file, !.after = file]

\* prepare_env from the cleanup file on, given its set_env and unset_varnames
prepare_env_export(env, denv, dunit, file, fault, set_env, unset_varnames, app) ==
    IF fault = "ledger_io"
    THEN PrepareRecord("raised", TRUE, env, denv, NotAppended(file), set_env,
                       unset_varnames, NoSet, NoUnset)
    ELSE IF fault = "rpc_set"
    THEN PrepareRecord("raised", TRUE, env,
                       set_systemd_vars_dbus(denv, dunit, set_env), app,
                       set_env, unset_varnames, SetCall(set_env), NoUnset)
    ELSE IF unset_varnames = {}
    THEN PrepareRecord("ok", TRUE, SetEnvironment(env, set_env),
                       set_systemd_vars_dbus(denv, dunit, set_env), app,
                       set_env, unset_varnames, SetCall(set_env), NoUnset)
    ELSE IF fault = "rpc_unset"
    THEN PrepareRecord("raised", TRUE, SetEnvironment(env, set_env),
                       unset_systemd_vars_dbus(
                           set_systemd_vars_dbus(denv, dunit, set_env),
                           dunit, unset_varnames),
                       app, set_env, unset_varnames, SetCall(set_env),
                       UnsetCall(unset_varnames))
    ELSE PrepareRecord("ok", TRUE,
                       UnsetEnvironment(SetEnvironment(env, set_env),
                                        unset_varnames),
                       unset_systemd_vars_dbus(
                           set_systemd_vars_dbus(denv, dunit, set_env),
                           dunit, unset_varnames),
                       app, set_env, unset_varnames, SetCall(set_env),
                       UnsetCall(unset_varnames))

\* prepare_env from the diff on, given env_pre, env_post and systemd_varnames
prepare_env_diff(id, env, denv, dunit, file, fault, systemd_varnames, env_pre, env_post) ==
    prepare_env_export(env, denv, dunit, file, fault,
        set_env_of(env_post, env_pre),
        unset_varnames_of(env_pre, env_post, systemd_varnames),
        AppendCall(id, file, cleanup_varnames_of(set_env_of(env_post, env_pre)),
                   FALSE, TRUE))

\* prepare_env for compositor id on the activation environments (env, denv)
\* and the cleanup file; raw_post is what the shell probe prints
prepare_env(id, env, denv, dunit, file, fault, v_term, session_id, raw_post) ==
    IF fault = "no_sh"
    THEN PrepareRecord("exit1", FALSE, env, denv, NotAppended(file),
                       EmptyDict, {}, NoSet, NoUnset)
    ELSE IF fault \in EarlyFaults
    THEN PrepareRecord("raised", fault \notin PreProbeFaults, env, denv,
                       NotAppended(file), EmptyDict, {}, NoSet, NoUnset)
    ELSE prepare_env_diff(id, env, denv, dunit, file, fault,
             Keys(filter_varnames_dict(env)),
             override_identity(filter_varnames_dict(env), v_term, session_id),
             filter_varnames_dict(raw_post))

\* main, "aux prepare-env": prepare_env (its record p), cleanup_env if it
\* raised (its record c), and the exit code
AuxPrepareRecord(p, c, exit, env, denv, led) ==
    [prep |-> p, clean |-> c, exit |-> exit, env |-> env, dbus |-> denv,
     ledger |-> led]

aux_prepare_env_no_cleanup(p, c, led) ==
    AuxPrepareRecord(p, NoCleanup, IF p.outcome = "ok" THEN 0 ELSE 1,
                     p.env, p.dbus, led)

aux_prepare_env(p, c, led) ==
    IF p.outcome = "raised"
    THEN AuxPrepareRecord(p, c, 1, c.env, c.dbus, c.ledger)
    ELSE AuxPrepareRecord(p, NoCleanup, IF p.outcome = "ok" THEN 0 ELSE 1,
                          p.env, p.dbus, led)

----------------------------------------------------------------------------
(* finalize *)

FinalizeFaults == {"none", "rpc_set"}

\* what a finalize command did; exit is its exit code
FinalizeRecord(outcome, exit, env, denv, led, app, set_req, notified) ==
    [outcome |-> outcome, exit |-> exit, env |-> env, dbus |-> denv,
     ledger |-> led, append |-> app, set_req |-> set_req,
     notified |-> notified]

\* export_vars: WAYLAND_DISPLAY, DISPLAY and additional_vars, as far as the
\* process environment penv has them
export_vars_of(penv, additional_vars) ==
    Restrict(penv, {"WAYLAND_DISPLAY", "DISPLAY"} \cup additional_vars)

finalize_export_without_ledger(env, denv, dunit, led, wm_id, activating_wm_id, fault, export_vars, app) ==
    FinalizeRecord("ok", 0, SetEnvironment(env, export_vars),
                   set_systemd_vars_dbus(denv, dunit, export_vars),
                   [led EXCEPT ![wm_id] = app.after], app,
                   SetCall(export_vars), activating_wm_id)

finalize_export_never_notifies(env, denv, dunit, led, wm_id, activating_wm_id, fault, export_vars, app) ==
    IF app.raised = "FileNotFoundError"
    THEN FinalizeRecord("exit1", 1, env, denv, led, app, NoSet, "")
    ELSE FinalizeRecord("ok", 0, SetEnvironment(env, export_vars),
                        set_systemd_vars_dbus(denv, dunit, export_vars),
                        [led EXCEPT ![wm_id] = app.after], app,
                        SetCall(export_vars), "")

\* finalize from the cleanup file on
finalize_export(env, denv, dunit, led, wm_id, activating_wm_id, fault, export_vars, app) ==
    IF app.raised = "FileNotFoundError"
    THEN FinalizeRecord("exit1", 1, env, denv, led, app, NoSet, "")
    ELSE IF fault = "rpc_set"
    THEN FinalizeRecord("raised", 0, env,
                        set_systemd_vars_dbus(denv, dunit, export_vars),
                        [led EXCEPT ![wm_id] = app.after], app,
                        SetCall(export_vars), "")
    ELSE FinalizeRecord("ok", 0, SetEnvironment(env, export_vars),
                        set_systemd_vars_dbus(denv, dunit, export_vars),
                        [led EXCEPT ![wm_id] = app.after], app,
                        SetCall(export_vars), activating_wm_id)

\* what stands for the id when get_active_wm_unit raises: with more than
\* one unit listed, its warning joins the listed structs as if they were
\* strings, which is a TypeError
LookupRaised == "TypeError"

\* finalize(additional_vars) called with process environment penv, when
\* get_active_wm_id() gives wm_id and, for activating units only,
\* activating_wm_id
finalize(env, denv, dunit, led, penv, additional_vars, wm_id, activating_wm_id, fault) ==
    IF "WAYLAND_DISPLAY" \notin DOMAIN penv
    THEN FinalizeRecord("raised", 0, env, denv, led, NoAppend, NoSet, "")
    ELSE IF wm_id = LookupRaised \/ activating_wm_id = LookupRaised
    THEN FinalizeRecord("lookup_raised", 0, env, denv, led, NoAppend, NoSet, "")
    ELSE IF wm_id = "" \/ (activating_wm_id # "" /\ wm_id # activating_wm_id)
    THEN FinalizeRecord("exit1", 1, env, denv, led, NoAppend, NoSet, "")
    ELSE finalize_export(env, denv, dunit, led, wm_id, activating_wm_id, fault,
             export_vars_of(penv, additional_vars),
             AppendCall(wm_id, led[wm_id],
                        Keys(export_vars_of(penv, additional_vars)),
                        FALSE, FALSE))

----------------------------------------------------------------------------
(* State shared by the specifications *)

\* the readiness watcher of "aux exec": whether it runs, and its env_pre
NoWatch == [on |-> FALSE, env_pre |-> EmptyDict]

NoCapture ==
    [phase |-> "start", snapshot |-> EmptyDict, v_term |-> 1,
     session_id |-> "1", raw_post |-> EmptyDict, set_req |-> NoSet,
     unset_req |-> NoUnset, set_env |-> EmptyDict, unset_varnames |-> {},
     env_pre |-> EmptyDict, probed |-> FALSE, fault |-> "none"]

\* the last command run: its exit code, how its function ended, its
\* append_to_cleanup_file call and its cleanup_env call
RunRecord(op, id, exit, outcome, app, c) ==
    [op |-> op, id |-> id, exit |-> exit, outcome |-> outcome,
     append |-> app, clean |-> c]

NoRun == RunRecord("none", "", 0, "none", NoAppend, NoCleanup)

\* no simple_systemd_escape call
NoEscape ==
    [phase |-> "off", string |-> <<>>, start |-> FALSE, escaped |-> <<>>,
     unescaped |-> <<>>]

\* CompGlobals before fill_comp_globals
NoCompositor ==
    [id |-> "", bin_name |-> "", name |-> "", description |-> "",
     desktop_names |-> <<>>, cli_desktop_names |-> <<>>,
     cli_desktop_names_exclusive |-> FALSE, cmdline |-> <<>>,
     cli_args |-> <<>>]

\* a start or stop process: its arguments, its position, its
\* UnitsState.changed, and what it has done so far
Command(mode, pc, comp, use_session_slice, dry_run, only_generate, remove_units, again) ==
    [mode |-> mode, pc |-> pc, comp |-> comp,
     use_session_slice |-> use_session_slice, dry_run |-> dry_run,
     only_generate |-> only_generate, remove_units |-> remove_units,
     again |-> again, changed |-> FALSE, generated |-> FALSE,
     gen_changed |-> FALSE, touched |-> {}, before |-> EmptyDict,
     reload |-> "none", reloads |-> 0, jobs |-> <<>>, stopped |-> <<>>,
     exit |-> ""]

NoCommand == Command("idle", "done", NoCompositor, FALSE, FALSE, FALSE, "no", FALSE)

\* the processes that may run "uwsm stop" at the same time
Stoppers == {1, 2}

NoStopper == [pc |-> "idle", dry_run |-> FALSE, units |-> <<>>, job |-> "", ret |-> "none"]

NoStopJob == [queued |-> FALSE, asked |-> 0]

\* nothing escapes a name, no start or stop command runs, no unit file is
\* there
EscapeOff == esc = NoEscape

UnitsOff ==
    /\ tree = EmptyDict
    /\ run = NoCommand
    /\ passes = 0

StopOff ==
    /\ stoppers = [p \in Stoppers |-> NoStopper]
    /\ stop_jobs = [id \in WmIds |-> NoStopJob]

\* no session holder forked
NoHolder ==
    [pc |-> "off", id |-> "", attempt |-> 0, polls |-> 0, kills |-> 0,
     parent |-> "none", exit |-> ""]

HolderOff == holder = NoHolder

\* a "uwsm start" process not yet run
NoStarter ==
    [pc |-> "idle", id |-> "", dry_run |-> FALSE, seen |-> {}, job |-> "",
     over |-> {}, exit |-> ""]

StartersOff == starters = [p \in Stoppers |-> NoStarter]

\* no waitenv call
NoWaitenv ==
    [pc |-> "off", varnames_set |-> {}, timeout |-> 0, step |-> 1,
     attempt |-> 0, varnames_exist_set |-> {}, log |-> <<>>,
     result |-> "", named |-> {}]

WaitenvOff == wenv = NoWaitenv

\* no wait for a job
NoJobWait ==
    [pc |-> "off", caller |-> "", job |-> "none", others |-> {}, polls |-> 0,
     result |-> ""]

JobWaitOff == jobw = NoJobWait

\* no update_unit or remove_unit call on a string
NoUnitCall ==
    [phase |-> "off", op |-> "none", unit |-> <<>>, data |-> <<>>, dry_run |-> FALSE,
     tree |-> EmptyDict, changed |-> FALSE, raised |-> "none",
     tree_after |-> EmptyDict, changed_after |-> FALSE]

UnitCallOff == uc = NoUnitCall

\* no remove_units call on such a directory
NoRemoval ==
    [phase |-> "off", id |-> "", generated |-> EmptyDict, only |-> "", dry_run |-> FALSE,
     tree |-> EmptyDict, dirs |-> {}, changed |-> FALSE, raised |-> "none",
     tree_after |-> EmptyDict, dirs_after |-> {}]

RemovalOff == rm = NoRemoval

\* no unit graph under the service manager
NoGraph ==
    [phase |-> "off", active |-> {}, failed |-> {}, stopped |-> {},
     jobs |-> {}, cause |-> "none"]

GraphOff == graph = NoGraph

\* no "uwsm stop" followed step by step
NoStopMode ==
    [pc |-> "off", dry_run |-> FALSE, remove_units |-> "no", wm |-> "inactive",
     job |-> "none", stop_wm |-> "none", stop_rc |-> "", before |-> EmptyDict,
     tree |-> EmptyDict, dirs |-> {}, changed |-> FALSE, removal |-> "none",
     job_at_removal |-> "none", reload |-> "none", exit |-> ""]

StopModeOff == sm = NoStopMode

\* a process inside append_to_cleanup_file and the export that follows it:
\* its position, the names it is to record, the names it read from the
\* file, what it is to export
NoAppender ==
    [pc |-> "off", names |-> {}, current |-> {}, export_vars |-> EmptyDict,
     env_pre |-> EmptyDict, exit |-> ""]

\* no session followed step by step
NoSessionRun ==
    [phase |-> "off", env |-> EmptyDict, file |-> NoFile, wm |-> "inactive",
     set_env |-> EmptyDict, unset_varnames |-> {}, exported |-> {},
     held |-> {}, interfered |-> FALSE, finalizes |-> 0, base |-> {},
     fin |-> NoAppender, wat |-> NoAppender]

SessionRunOff == ss = NoSessionRun

\* no process forked
NoFork ==
    [kind |-> "none",
     child |-> [pc |-> "off", image |-> "none", attempt |-> 0, raised |-> "none"],
     parent |-> [pc |-> "off", image |-> "none", signalled |-> "no"]]

ForkOff == fk = NoFork

WaitOff == HolderOff /\ StartersOff /\ WaitenvOff /\ JobWaitOff /\ UnitCallOff /\ RemovalOff /\ GraphOff /\ StopModeOff /\ SessionRunOff /\ ForkOff

----------------------------------------------------------------------------
(* One prepare_env run on any activation environment and any probe result *)

\* activation environments the capture can start from
Snapshots == UNION {[S -> {"1"}] : S \in SUBSET VarUniverse}

InitDiff ==
    /\ sysenv \in Snapshots
    /\ dbusenv = EmptyDict
    /\ dbus_unit = "dbus-broker.service"
    /\ ledger = [id \in WmIds |-> NoFile]
    /\ envsvc = [id \in WmIds |-> "inactive"]
    /\ unit = [id \in WmIds |-> "inactive"]
    /\ watcher = [id \in WmIds |-> NoWatch]
    /\ last = NoRun
    /\ nops = 0
    /\ cap = NoCapture
    /\ EscapeOff
    /\ UnitsOff
    /\ StopOff
    /\ WaitOff

PrepareEnvRun ==
    /\ UNCHANGED wait_state
    /\ UNCHANGED <<escape_state, units_state, stop_state>>
    /\ cap.phase = "start"
    /\ \E v_term \in VTs, session_id \in Sessions :
         \E raw_post \in ProbeResults(
                 override_identity(filter_varnames_dict(sysenv), v_term, session_id),
                 MaxProbeChanges) :
            \E p \in {prepare_env("sway", sysenv, dbusenv, dbus_unit,
                                  ledger["sway"], "none", v_term, session_id,
                                  raw_post)} :
                /\ cap' = [phase |-> "done", snapshot |-> sysenv,
                           v_term |-> v_term, session_id |-> session_id,
                           raw_post |-> raw_post, set_req |-> p.set_req,
                           unset_req |-> p.unset_req, set_env |-> p.set_env,
                           unset_varnames |-> p.unset_varnames,
                           env_pre |-> override_identity(
                               filter_varnames_dict(sysenv), v_term, session_id),
                           probed |-> p.probed, fault |-> "none"]
                /\ sysenv' = p.env
                /\ dbusenv' = p.dbus
                /\ ledger' = [ledger EXCEPT !["sway"] = p.file]
    /\ UNCHANGED <<dbus_unit, envsvc, unit, watcher, last, nops>>

\* prepare_env on a host where get_fg_vt or get_session_by_vt returns None
PrepareEnvUnresolved ==
    /\ UNCHANGED wait_state
    /\ UNCHANGED <<escape_state, units_state, stop_state>>
    /\ cap.phase = "start"
    /\ \E fault \in {"no_vt", "no_session"}, v_term \in VTs :
         \E p \in {prepare_env("sway", sysenv, dbusenv, dbus_unit,
                               ledger["sway"], fault, v_term, "1", EmptyDict)} :
            /\ cap' = [cap EXCEPT !.phase = p.outcome, !.snapshot = sysenv,
                                  !.v_term = v_term,
                                  !.set_req = p.set_req, !.unset_req = p.unset_req,
                                  !.set_env = p.set_env,
                                  !.unset_varnames = p.unset_varnames,
                                  !.probed = p.probed, !.fault = fault]
            /\ sysenv' = p.env
            /\ dbusenv' = p.dbus
            /\ ledger' = [ledger EXCEPT !["sway"] = p.file]
    /\ UNCHANGED <<dbus_unit, envsvc, unit, watcher, last, nops>>

NextDiff ==
    \/ PrepareEnvRun
    \/ PrepareEnvUnresolved

SpecDiff == InitDiff /\ [][NextDiff]_vars

----------------------------------------------------------------------------
(* Claims about the diff *)

\* names that none of the policy sets consulted by the diff mentions
NoPolicyNames == VarUniverse \ (always_export \cup never_export \cup always_unset)

\* toSet and toUnset of a finished capture agree, on name n, with the plain
\* difference between pre and post
PlainDiffOn(n, pre, post, toSet, toUnset) ==
    /\ n \in DOMAIN toSet <=>
          (n \in DOMAIN post /\ (n \notin DOMAIN pre \/ pre[n] # post[n]))
    /\ n \in DOMAIN toSet => toSet[n] = post[n]
    /\ n \in toUnset <=> (n \in DOMAIN pre /\ n \notin DOMAIN post)

C2_AlwaysExport ==
    cap.phase = "done" =>
        \A n \in always_export \cap DOMAIN cap.raw_post :
            /\ cap.set_req.called
            /\ n \in DOMAIN cap.set_req.arg
            /\ cap.set_req.arg[n] = cap.raw_post[n]

C2_Witness ==
    /\ cap.phase = "done"
    /\ "XDG_VTNR" \in DOMAIN cap.snapshot
    /\ "XDG_VTNR" \in DOMAIN cap.raw_post
    /\ cap.snapshot["XDG_VTNR"] = cap.raw_post["XDG_VTNR"]
    /\ cap.raw_post["XDG_VTNR"] = ToString(cap.v_term)
    /\ "XDG_VTNR" \in DOMAIN cap.set_req.arg

\* C3 as stated: every always-unset name is in toUnset.
C3_Original ==
    cap.phase = "done" => always_unset \subseteq cap.unset_varnames

\* C3 amended: every always-unset name that the service manager holds is
\* passed to UnsetEnvironment, even if it is still present in post.
C3_AlwaysUnsetHeld ==
    cap.phase = "done" =>
        \A n \in always_unset \cap DOMAIN cap.snapshot :
            /\ n \in cap.unset_varnames
            /\ cap.unset_req.called
            /\ n \in cap.unset_req.arg

C3_Witness ==
    /\ cap.phase = "done"
    /\ "WAYLAND_DISPLAY" \in DOMAIN cap.snapshot
    /\ "WAYLAND_DISPLAY" \in DOMAIN cap.raw_post
    /\ cap.unset_req.called
    /\ "WAYLAND_DISPLAY" \in cap.unset_req.arg

\* C4: no never-export name and no always-unset name is ever passed to
\* SetEnvironment.
C4_NeverExported ==
    cap.phase = "done" =>
        /\ cap.set_req.called
        /\ DOMAIN cap.set_req.arg \cap (never_export \cup always_unset) = {}

C4_Witness ==
    /\ cap.phase = "done"
    /\ "PWD" \in DOMAIN cap.raw_post
    /\ "PWD" \notin DOMAIN cap.snapshot
    /\ "WAYLAND_DISPLAY" \in DOMAIN cap.raw_post
    /\ "WAYLAND_DISPLAY" \notin DOMAIN cap.snapshot
    /\ cap.set_req.called
    /\ DOMAIN cap.set_req.arg \cap {"PWD", "WAYLAND_DISPLAY"} = {}

----------------------------------------------------------------------------
(* The session: the aux actions run by the service manager, finalize, the *)
(* readiness watcher                                                       *)

\* activation environments a login leaves behind
InitialEnvs ==
    {EmptyDict,
     [n \in {"FOO", "SSH_AUTH_SOCK", "XDG_VTNR"} |-> "1"]}

\* a ledger left behind by an earlier session of another compositor
StaleLedger == FileOf(sorted(cleanup_varnames_of([n \in {"FOO"} |-> "1"])))

\* at login: no compositor unit is up
InitAtLogin ==
    /\ sysenv \in InitialEnvs
    /\ dbus_unit \in DbusUnits
    /\ ledger \in {[id \in WmIds |-> NoFile],
                   [id \in WmIds |-> IF id = "labwc" THEN StaleLedger ELSE NoFile]}
    /\ envsvc = [id \in WmIds |-> "inactive"]
    /\ unit = [id \in WmIds |-> "inactive"]

\* a session of labwc, started earlier, is up
InitBesideLabwc ==
    /\ sysenv = [n \in {"FOO", "WAYLAND_DISPLAY"} |-> "1"]
    /\ dbus_unit = "dbus-broker.service"
    /\ ledger = [id \in WmIds |-> IF id = "labwc" THEN StaleLedger ELSE NoFile]
    /\ envsvc = [id \in WmIds |-> IF id = "labwc" THEN "active" ELSE "inactive"]
    /\ unit = [id \in WmIds |-> IF id = "labwc" THEN "active" ELSE "inactive"]

Init ==
    /\ InitAtLogin \/ InitBesideLabwc
    /\ dbusenv = EmptyDict
    /\ watcher = [id \in WmIds |-> NoWatch]
    /\ last = NoRun
    /\ nops = 0
    /\ cap = NoCapture
    /\ EscapeOff
    /\ UnitsOff
    /\ StopOff
    /\ WaitOff

\* wayland-wm@*.service units in one of the given states, as
\* list_units_by_patterns returns them
units_in(states) == {id \in WmIds : unit[id] \in states}

\* get_active_wm_id: "" when no unit is listed, the id of the unit when one
\* is, and an exception when several are
active_wm_ids(states) ==
    IF units_in(states) = {} THEN {""}
    ELSE IF Cardinality(units_in(states)) = 1 THEN units_in(states)
    ELSE {LookupRaised}

is_active_compositor_never == FALSE

\* is_active("compositor-only")
is_active_compositor == units_in({"active", "activating"}) # {}

\* the host the session runs on: its foreground VT and login session
SessionVT == 1
SessionId == "1"

\* what the shell probe of the session does to its environment: nothing;
\* a user variable changed and the agent socket added; a variable removed;
\* a display and an invalid name added
SessionProbeChanges ==
    {EmptyDict,
     [n \in {"FOO", "SSH_AUTH_SOCK"} |-> "2"],
     [n \in {"FOO"} |-> NoValue],
     [n \in {"WAYLAND_DISPLAY", "_"} |-> "1"]}

SessionProbeResults(env) ==
    {ApplyChanges(env, ch) : ch \in SessionProbeChanges}

\* main, "aux prepare-env": ExecStart of wayland-wm-env@<id>.service
AuxPrepareEnv(id) ==
    /\ UNCHANGED wait_state
    /\ UNCHANGED <<escape_state, units_state, stop_state>>
    /\ nops < MaxOps
    /\ envsvc[id] = "inactive"
    /\ \E fault \in PrepareFaults :
         \E raw_post \in
               IF fault \in EarlyFaults
               THEN {EmptyDict}
               ELSE SessionProbeResults(
                        override_identity(filter_varnames_dict(sysenv),
                                          SessionVT, SessionId)) :
           \E p \in {prepare_env(id, sysenv, dbusenv, dbus_unit, ledger[id],
                                 fault, SessionVT, SessionId, raw_post)} :
             \E cfault \in IF p.outcome = "raised" THEN CleanupFaults
                                                   ELSE {"none"} :
               \E a \in {aux_prepare_env(
                            p,
                            cleanup_env(p.env, p.dbus, dbus_unit,
                                        [ledger EXCEPT ![id] = p.file], cfault),
                            [ledger EXCEPT ![id] = p.file])} :
                 /\ sysenv' = a.env
                 /\ dbusenv' = a.dbus
                 /\ ledger' = a.ledger
                 /\ envsvc' = [envsvc EXCEPT
                                 ![id] = IF a.exit = 0 THEN "active"
                                                       ELSE "inactive"]
                 /\ last' = RunRecord("prepare-env", id, a.exit, p.outcome,
                                      p.append, a.clean)
    /\ nops' = nops + 1
    /\ UNCHANGED <<dbus_unit, unit, watcher, cap>>

\* main, "aux prepare-env" ended before prepare_env is entered: not run by
\* the service manager, or fill_comp_globals raised
AuxPrepareEnvRefused(id) ==
    /\ UNCHANGED wait_state
    /\ UNCHANGED <<escape_state, units_state, stop_state>>
    /\ nops < MaxOps
    /\ envsvc[id] = "inactive"
    /\ last' = RunRecord("prepare-env", id, 1, "not_entered", NoAppend,
                         NoCleanup)
    /\ nops' = nops + 1
    /\ UNCHANGED <<sysenv, dbusenv, dbus_unit, ledger, envsvc, unit, watcher, cap>>

\* main, "aux cleanup-env": ExecStop of wayland-wm-env@<id>.service.  The
\* service manager stops wayland-wm@<id>.service, which is ordered after
\* the preloader, before it stops the preloader.
AuxCleanupEnv(id) ==
    /\ UNCHANGED wait_state
    /\ UNCHANGED <<escape_state, units_state, stop_state>>
    /\ nops < MaxOps
    /\ envsvc[id] = "active"
    /\ unit[id] = "inactive"
    /\ IF is_active_compositor
       THEN /\ last' = RunRecord("cleanup-env", id, 1, "refused", NoAppend,
                                 NoCleanup)
            /\ UNCHANGED <<sysenv, dbusenv, ledger>>
       ELSE \E cfault \in CleanupFaults :
              \E c \in {cleanup_env(sysenv, dbusenv, dbus_unit, ledger, cfault)} :
                /\ sysenv' = c.env
                /\ dbusenv' = c.dbus
                /\ ledger' = c.ledger
                /\ last' = RunRecord("cleanup-env", id,
                                     IF c.raised THEN 1 ELSE 0,
                                     IF c.raised THEN "raised" ELSE "ok",
                                     NoAppend, c)
    /\ envsvc' = [envsvc EXCEPT ![id] = "inactive"]
    /\ nops' = nops + 1
    /\ UNCHANGED <<dbus_unit, unit, watcher, cap>>

\* main, "aux exec": ExecStart of wayland-wm@<id>.service; forks the
\* readiness watcher, then becomes the compositor
AuxExec(id) ==
    /\ UNCHANGED wait_state
    /\ UNCHANGED <<escape_state, units_state, stop_state>>
    /\ nops < MaxOps
    /\ envsvc[id] = "active"
    /\ unit[id] = "inactive"
    /\ unit' = [unit EXCEPT ![id] = "activating"]
    /\ watcher' = [watcher EXCEPT
                     ![id] = [on |-> TRUE, env_pre |-> filter_varnames_dict(sysenv)]]
    /\ last' = RunRecord("exec", id, 0, "ok", NoAppend, NoCleanup)
    /\ nops' = nops + 1
    /\ UNCHANGED <<sysenv, dbusenv, dbus_unit, ledger, envsvc, cap>>

\* process environments finalize is called with
FinalizeEnvs ==
    {EmptyDict,
     [n \in {"WAYLAND_DISPLAY"} |-> "1"],
     [n \in {"WAYLAND_DISPLAY", "FOO", "SSH_AUTH_SOCK"} |-> "2"]}

\* its additional_vars
AdditionalVars == {{}, {"FOO", "SSH_AUTH_SOCK"}}

\* main, "finalize": run by the compositor or by hand
Finalize ==
    /\ UNCHANGED wait_state
    /\ UNCHANGED <<escape_state, units_state, stop_state>>
    /\ nops < MaxOps
    /\ \E penv \in FinalizeEnvs, additional_vars \in AdditionalVars,
          fault \in FinalizeFaults,
          wm_id \in active_wm_ids({"active", "activating"}),
          activating_wm_id \in active_wm_ids({"activating"}) :
         \E f \in {finalize(sysenv, dbusenv, dbus_unit, ledger, penv,
                            additional_vars, wm_id, activating_wm_id, fault)} :
             /\ sysenv' = f.env
             /\ dbusenv' = f.dbus
             /\ ledger' = f.ledger
             /\ unit' = IF f.notified # ""
                        THEN [unit EXCEPT ![f.notified] = "active"]
                        ELSE unit
             /\ last' = RunRecord("finalize", wm_id, f.exit, f.outcome,
                                  f.append, NoCleanup)
    /\ nops' = nops + 1
    /\ UNCHANGED <<dbus_unit, envsvc, watcher, cap>>

\* env_delta of the readiness watcher
env_delta_of(env_post, env_pre) == DictOf(Items(env_post) \ Items(env_pre))

\* the readiness watcher of "aux exec", once waitenv has seen WAYLAND_DISPLAY
WatcherReady(id) ==
    /\ UNCHANGED wait_state
    /\ UNCHANGED <<escape_state, units_state, stop_state>>
    /\ nops < MaxOps
    /\ watcher[id].on
    /\ "WAYLAND_DISPLAY" \in DOMAIN sysenv
    /\ \E env_delta \in {env_delta_of(filter_varnames_dict(sysenv),
                                      watcher[id].env_pre)} :
         \E app \in {IF env_delta # EmptyDict
                     THEN AppendCall(id, ledger[id], Keys(env_delta), TRUE, TRUE)
                     ELSE NotAppended(ledger[id])} :
           /\ ledger' = [ledger EXCEPT ![id] = app.after]
           /\ \E activating \in active_wm_ids({"activating"}) :
                 /\ last' = IF activating = LookupRaised
                            THEN RunRecord("watcher", id, 1, "lookup_raised",
                                           app, NoCleanup)
                            ELSE RunRecord("watcher", id, 0, "ok", app,
                                           NoCleanup)
                 /\ unit' = IF activating \notin {"", LookupRaised}
                            THEN [unit EXCEPT ![id] = "active"]
                            ELSE unit
    /\ watcher' = [watcher EXCEPT ![id] = NoWatch]
    /\ nops' = nops + 1
    /\ UNCHANGED <<sysenv, dbusenv, dbus_unit, envsvc, cap>>

\* the readiness watcher when waitenv times out
WatcherTimeout(id) ==
    /\ UNCHANGED wait_state
    /\ UNCHANGED <<escape_state, units_state, stop_state>>
    /\ nops < MaxOps
    /\ watcher[id].on
    /\ "WAYLAND_DISPLAY" \notin DOMAIN sysenv
    /\ watcher' = [watcher EXCEPT ![id] = NoWatch]
    /\ last' = RunRecord("watcher", id, 1, "raised", NoAppend, NoCleanup)
    /\ nops' = nops + 1
    /\ UNCHANGED <<sysenv, dbusenv, dbus_unit, ledger, envsvc, unit, cap>>

\* wayland-wm@<id>.service stops (the compositor exits, or the start times
\* out); the service manager kills what is left of its processes
UnitStop(id) ==
    /\ UNCHANGED wait_state
    /\ UNCHANGED <<escape_state, units_state, stop_state>>
    /\ unit[id] \in {"activating", "active"}
    /\ unit' = [unit EXCEPT ![id] = "inactive"]
    /\ watcher' = [watcher EXCEPT ![id] = NoWatch]
    /\ UNCHANGED <<sysenv, dbusenv, dbus_unit, ledger, envsvc, last, nops, cap>>

Next ==
    \/ \E id \in WmIds : AuxPrepareEnv(id)
    \/ \E id \in WmIds : AuxPrepareEnvRefused(id)
    \/ \E id \in WmIds : AuxExec(id)
    \/ Finalize
    \/ \E id \in WmIds : WatcherReady(id)
    \/ \E id \in WmIds : WatcherTimeout(id)
    \/ \E id \in WmIds : UnitStop(id)
    \/ \E id \in WmIds : AuxCleanupEnv(id)

Spec == Init /\ [][Next]_vars

----------------------------------------------------------------------------
(* Claims about the ledger and its cleanup *)

\* C5: whatever prepare_env, finalize and the readiness watcher append, no
\* cleanup file holds a name of never_cleanup, and no append keeps one.
C5_NeverCleanupNotLedgered ==
    /\ \A id \in WmIds : LinesOf(ledger[id]) \cap never_cleanup = {}
    /\ last.append.called => last.append.names \cap never_cleanup = {}

C5_Witness ==
    /\ last.op = "finalize"
    /\ last.append.called
    /\ "SSH_AUTH_SOCK" \in last.append.given
    /\ last.append.wrote
    /\ "FOO" \in LinesOf(ledger[last.id])

\* before is a prefix of after
IsPrefix(before, after) ==
    /\ Len(before) <= Len(after)
    /\ \A i \in 1..Len(before) : before[i] = after[i]

\* C6: an append_to_cleanup_file call that returns leaves in the file
\* exactly the names it held before and the filtered names given, the old
\* lines kept in place; when filtering leaves no name, the file is neither
\* written nor created and holds what it held.
C6_AppendIsUnion ==
    (last.append.called /\ last.append.raised = "none") =>
        /\ LinesOf(last.append.after)
              = LinesOf(last.append.before) \cup last.append.names
        /\ IsPrefix(last.append.before.lines, last.append.after.lines)
        /\ last.append.names # {} => last.append.after.exists
        /\ last.append.names = {} =>
              /\ ~last.append.wrote
              /\ last.append.after = last.append.before

C6_Witness ==
    /\ last.append.called
    /\ last.append.before.exists
    /\ last.append.given \cap never_cleanup # {}
    /\ last.append.names \cap LinesOf(last.append.before) # {}
    /\ last.append.names \ LinesOf(last.append.before) # {}
    /\ last.append.wrote

\* the names the description of cleanup_env gives for a call c
CleanupSet(c) == ((c.read \cup always_cleanup) \ never_cleanup) \cap c.held

\* env without the names of S
Without(env, S) == Restrict(env, DOMAIN env \ S)

\* C7 as stated: a cleanup_env call that returns has removed exactly
\* ((names read from the found files + always_cleanup) - never_cleanup)
\* intersected with the held names from the activation environment.
C7_Original ==
    (last.clean.called /\ ~last.clean.raised) =>
        last.clean.env = Without(last.clean.env_before, CleanupSet(last.clean))

\* C7 amended: when at least one cleanup file is found, cleanup_env asks to
\* unset exactly that set (and makes no call when it is empty), never a name
\* that is not held, and a call that returns leaves every other variable as
\* it was; when no cleanup file is found it unsets nothing.
C7_CleanupSet ==
    last.clean.called =>
        /\ last.clean.found = {} =>
              /\ ~last.clean.unset_req.called
              /\ last.clean.env = last.clean.env_before
        /\ (last.clean.found # {} /\ ~last.clean.raised) =>
              /\ last.clean.unset_req.called <=> CleanupSet(last.clean) # {}
              /\ last.clean.unset_req.arg = CleanupSet(last.clean)
              /\ last.clean.env
                    = Without(last.clean.env_before, CleanupSet(last.clean))
        /\ last.clean.unset_req.called =>
              /\ last.clean.unset_req.arg = CleanupSet(last.clean)
              /\ last.clean.unset_req.arg \subseteq last.clean.held

C7_Witness ==
    /\ last.op = "cleanup-env"
    /\ last.clean.called
    /\ ~last.clean.raised
    /\ "FOO" \in last.clean.read
    /\ {"FOO", "SSH_AUTH_SOCK", "XDG_VTNR"} \subseteq last.clean.held
    /\ {"FOO", "XDG_VTNR"} \subseteq last.clean.unset_req.arg
    /\ "SSH_AUTH_SOCK" \in DOMAIN last.clean.env
    /\ "FOO" \notin DOMAIN last.clean.env

\* C8 as stated: cleanup_env returns true exactly when the call unset at
\* least one variable of the activation environment.
C8_Original ==
    (last.clean.called /\ ~last.clean.raised) =>
        (last.clean.ret <=> last.clean.env # last.clean.env_before)

\* C8 amended: cleanup_env returns true exactly when it found (and removed)
\* at least one cleanup file; a call that unset a variable returns true.
C8_ReturnsFound ==
    (last.clean.called /\ ~last.clean.raised) =>
        /\ last.clean.ret <=> last.clean.found # {}
        /\ last.clean.env # last.clean.env_before => last.clean.ret
        /\ last.clean.ret => \A id \in WmIds : ~last.clean.ledger[id].exists

C8_Witness ==
    /\ last.clean.called
    /\ ~last.clean.raised
    /\ last.clean.found # {}
    /\ ~last.clean.unset_req.called
    /\ last.clean.ret

\* a step that runs cleanup_env
CleanupStep == nops' = nops + 1 /\ last'.clean.called

\* a step that does not run cleanup_env keeps every line of every cleanup file
AppendOnlyStep ==
    ~CleanupStep =>
        \A id \in WmIds :
            /\ ledger[id].exists => ledger'[id].exists
            /\ IsPrefix(ledger[id].lines, ledger'[id].lines)

C10_Original ==
    (last.op = "prepare-env" /\ last.outcome \in {"raised", "exit1"}) =>
        last.clean.called

\* a failing "aux prepare-env" step without a cleanup_env call is one whose
\* prepare_env exited by itself or was never entered, and changes neither
\* the activation environments nor the cleanup files
NoCleanupOnlyUntouched ==
    (nops' = nops + 1 /\ last'.op = "prepare-env" /\ last'.exit # 0
        /\ ~last'.clean.called) =>
            /\ last'.outcome \in {"exit1", "not_entered"}
            /\ sysenv' = sysenv /\ dbusenv' = dbusenv /\ ledger' = ledger

\* C10 amended: whenever prepare_env raises an exception, cleanup_env is
\* attempted before the exit with code 1; a run that exits 1 without a
\* cleanup attempt has not touched the activation environments or the
\* cleanup files.
C10_CleanupOnRaise ==
    /\ []((last.op = "prepare-env" /\ last.outcome = "raised") =>
             (last.clean.called /\ last.exit = 1))
    /\ [][NoCleanupOnlyUntouched]_vars

C10_Witness ==
    /\ last.op = "prepare-env"
    /\ last.outcome = "raised"
    /\ last.append.wrote
    /\ last.exit = 1
    /\ last.clean.called
    /\ last.clean.found # {}
    /\ last.clean.ret

----------------------------------------------------------------------------
(* Unit name escaping.  A string is the sequence of its code points. *)

\* longest identifier enumerated
MaxIdLen == 3

\* bytes(string, "utf-8") of one code point
utf8(cp) ==
    IF cp < 128 THEN <<cp>>
    ELSE IF cp < 2048 THEN <<192 + (cp \div 64), 128 + (cp % 64)>>
    ELSE IF cp < 65536
         THEN <<224 + (cp \div 4096), 128 + ((cp \div 64) % 64), 128 + (cp % 64)>>
         ELSE <<240 + (cp \div 262144), 128 + ((cp \div 4096) % 64),
                128 + ((cp \div 64) % 64), 128 + (cp % 64)>>

\* one digit of "%02x"
hex_digit(n) == IF n < 10 THEN 48 + n ELSE 87 + n

cesc_byte_swapped(b) == <<92, 120, hex_digit(b % 16), hex_digit(b \div 16)>>

\* "\\x%02x" % b
cesc_byte(b) == <<92, 120, hex_digit(b \div 16), hex_digit(b % 16)>>

RECURSIVE cesc_bytes(_)
cesc_bytes(bs) ==
    IF bs = <<>> THEN <<>> ELSE cesc_byte(Head(bs)) \o cesc_bytes(Tail(bs))

\* char2cesc of a one-character string
char2cesc(ch) == cesc_bytes(utf8(ch))

escape_verbatim_wide(ucp) ==
    \/ ucp \in {46, 95}
    \/ 48 <= ucp /\ ucp <= 64
    \/ 65 <= ucp /\ ucp <= 90
    \/ 97 <= ucp /\ ucp <= 122

\* the characters simple_systemd_escape copies
escape_verbatim(ucp) ==
    \/ ucp \in {46, 95}
    \/ 48 <= ucp /\ ucp <= 58
    \/ 65 <= ucp /\ ucp <= 90
    \/ 97 <= ucp /\ ucp <= 122

\* what the loop of simple_systemd_escape appends for one character
escape_char(ch) ==
    IF ch = 47 THEN <<45>>
    ELSE IF escape_verbatim(ch) THEN <<ch>>
    ELSE char2cesc(ch)

RECURSIVE escape_chars(_)
escape_chars(string) ==
    IF string = <<>> THEN <<>>
    ELSE escape_char(Head(string)) \o escape_chars(Tail(string))

simple_systemd_escape(string, start) ==
    IF start /\ string # <<>> /\ Head(string) = 46
    THEN char2cesc(46) \o escape_chars(Tail(string))
    ELSE escape_chars(string)

\* value of a hexadecimal digit, 16 for any other character
hex_value(c) ==
    IF 48 <= c /\ c <= 57 THEN c - 48
    ELSE IF 97 <= c /\ c <= 102 THEN c - 87
    ELSE IF 65 <= c /\ c <= 70 THEN c - 55
    ELSE 16

\* the one-character escapes of the unicode_escape codec
SimpleEscapes ==
    [c \in {92, 39, 34, 97, 98, 102, 110, 114, 116, 118} |->
        CASE c = 97 -> 7
          [] c = 98 -> 8
          [] c = 102 -> 12
          [] c = 110 -> 10
          [] c = 114 -> 13
          [] c = 116 -> 9
          [] c = 118 -> 11
          [] OTHER -> c]

\* bytes.decode("unicode_escape"): \xNN is the character NN, any other
\* byte is the Latin-1 character of its value
RECURSIVE unicode_escape_decode(_)
unicode_escape_decode(bs) ==
    IF bs = <<>> THEN <<>>
    ELSE IF Head(bs) = 92 /\ Len(bs) >= 4 /\ bs[2] = 120
            /\ hex_value(bs[3]) < 16 /\ hex_value(bs[4]) < 16
    THEN <<16 * hex_value(bs[3]) + hex_value(bs[4])>>
            \o unicode_escape_decode(SubSeq(bs, 5, Len(bs)))
    ELSE IF Head(bs) = 92 /\ Len(bs) >= 2 /\ bs[2] \in DOMAIN SimpleEscapes
    THEN <<SimpleEscapes[bs[2]]>>
            \o unicode_escape_decode(SubSeq(bs, 3, Len(bs)))
    ELSE <<Head(bs)>> \o unicode_escape_decode(Tail(bs))

RECURSIVE bytes_utf8(_)
bytes_utf8(string) ==
    IF string = <<>> THEN <<>>
    ELSE utf8(Head(string)) \o bytes_utf8(Tail(string))

\* "wayland-wm@" and ".service"
WmUnitPrefix == <<119, 97, 121, 108, 97, 110, 100, 45, 119, 109, 64>>
WmUnitSuffix == <<46, 115, 101, 114, 118, 105, 99, 101>>

\* f"wayland-wm@{id_unit_string}.service"
wm_unit_name(id_unit_string) == WmUnitPrefix \o id_unit_string \o WmUnitSuffix

\* index of the first "@" of string at or after i, Len(string) + 1 if none
RECURSIVE find_at(_, _)
find_at(string, i) ==
    IF i > Len(string) \/ string[i] = 64 THEN i ELSE find_at(string, i + 1)

\* string.split("@")[1]
split_at_1(string) ==
    SubSeq(string, find_at(string, 1) + 1,
           find_at(string, find_at(string, 1) + 1) - 1)

\* string.removesuffix(".service")
removesuffix_service(string) ==
    IF Len(string) >= Len(WmUnitSuffix)
       /\ SubSeq(string, Len(string) - Len(WmUnitSuffix) + 1, Len(string))
             = WmUnitSuffix
    THEN SubSeq(string, 1, Len(string) - Len(WmUnitSuffix))
    ELSE string

\* get_active_wm_id, from the name of the unit found on
get_active_wm_id(active_id) ==
    unicode_escape_decode(bytes_utf8(removesuffix_service(split_at_1(active_id))))

----------------------------------------------------------------------------
(* Escaping one string and reading it back from the unit name *)

\* the rest of the state while only names are escaped
SessionOff ==
    /\ sysenv = EmptyDict
    /\ dbusenv = EmptyDict
    /\ dbus_unit = "dbus-broker.service"
    /\ ledger = [id \in WmIds |-> NoFile]
    /\ envsvc = [id \in WmIds |-> "inactive"]
    /\ unit = [id \in WmIds |-> "inactive"]
    /\ watcher = [id \in WmIds |-> NoWatch]
    /\ last = NoRun
    /\ nops = 0
    /\ cap = NoCapture

\* the characters strings are made of: - . / 0 : ; @ Z \ _ a, and three
\* characters of two, three and four UTF-8 bytes
EscapeAlphabet == {45, 46, 47, 48, 58, 59, 64, 90, 92, 95, 97, 233, 8364, 128512}

EscapeInputs == UNION {[1..n -> EscapeAlphabet] : n \in 0..MaxIdLen}

InitEscape ==
    /\ \E string \in EscapeInputs, start \in BOOLEAN :
          esc = [phase |-> "input", string |-> string, start |-> start,
                 escaped |-> <<>>, unescaped |-> <<>>]
    /\ SessionOff
    /\ UnitsOff
    /\ StopOff
    /\ WaitOff

\* simple_systemd_escape(string, start), then get_active_wm_id on the
\* unit named after the result
EscapeName ==
    /\ UNCHANGED wait_state
    /\ esc.phase = "input"
    /\ \E escaped \in {simple_systemd_escape(esc.string, esc.start)} :
          esc' = [esc EXCEPT !.phase = "done", !.escaped = escaped,
                             !.unescaped = get_active_wm_id(wm_unit_name(escaped))]
    /\ UNCHANGED <<session_state, units_state, stop_state>>

NextEscape == EscapeName

SpecEscape == InitEscape /\ [][NextEscape]_vars

\* Val.wm_id: the strings accepted as compositor ids
valid_wm_id(string) ==
    /\ string # <<>>
    /\ \A i \in 1..Len(string) :
          \/ string[i] \in {45, 46, 58, 95}
          \/ 48 <= string[i] /\ string[i] <= 57
          \/ 65 <= string[i] /\ string[i] <= 90
          \/ 97 <= string[i] /\ string[i] <= 122

\* the characters of string
CharSet(string) == {string[i] : i \in 1..Len(string)}

PlainClass == {46, 58, 95} \cup (48..57) \cup (65..90) \cup (97..122)

\* the escaped string splits into verbatim characters, "-" and escapes
RECURSIVE escape_shaped(_)
escape_shaped(out) ==
    IF out = <<>> THEN TRUE
    ELSE IF Head(out) = 92
    THEN /\ Len(out) >= 4
         /\ out[2] = 120
         /\ hex_value(out[3]) < 16
         /\ hex_value(out[4]) < 16
         /\ escape_shaped(SubSeq(out, 5, Len(out)))
    ELSE /\ Head(out) \in PlainClass \cup {45}
         /\ escape_shaped(Tail(out))

\* number of characters char of string
RECURSIVE count_of(_, _)
count_of(string, char) ==
    IF string = <<>> THEN 0
    ELSE (IF Head(string) = char THEN 1 ELSE 0) + count_of(Tail(string), char)

\* the characters of string that are escaped: all but the verbatim ones and
\* "/", and a leading "." when start is set
escaped_part(string, start) ==
    SelectSeq(IF start /\ string # <<>> /\ Head(string) = 46
              THEN Tail(string) ELSE string,
              LAMBDA ch : ch \notin PlainClass \cup {47})
       \o (IF start /\ string # <<>> /\ Head(string) = 46 THEN <<46>> ELSE <<>>)

\* C18: for any string and either start, the escaped string holds no "/",
\* is made of characters of [A-Za-z0-9_.:], "-" and four-character \xNN
\* escapes, holds one escape per UTF-8 byte of each escaped character, and
\* with start set begins with an escape when the string begins with ".".
C18_EscapeAlphabet ==
    esc.phase = "done" =>
        /\ 47 \notin CharSet(esc.escaped)
        /\ escape_shaped(esc.escaped)
        /\ count_of(esc.escaped, 92)
              = Len(bytes_utf8(escaped_part(esc.string, esc.start)))
        /\ (esc.start /\ esc.string # <<>> /\ Head(esc.string) = 46) =>
              SubSeq(esc.escaped, 1, 4) = <<92, 120, 50, 101>>

C18_Witness ==
    /\ esc.phase = "done"
    /\ esc.start
    /\ esc.string # <<>>
    /\ Head(esc.string) = 46
    /\ 47 \in CharSet(esc.string)
    /\ 8364 \in CharSet(esc.string)
    /\ count_of(esc.escaped, 92) = 4

----------------------------------------------------------------------------
(* Unit files.  The unit directory is a dict from unit path to unit data.  *)
(* A path is the unit name split around its instance; unit data is the     *)
(* list of the parts of the unit text that depend on anything.             *)

\* start and stop commands per behaviour
MaxPasses == 2

\* the ids as strings of code points
IdChars ==
    [id \in WmIds |-> IF id = "sway" THEN <<115, 119, 97, 121>>
                      ELSE <<108, 97, 98, 119, 99>>]

\* a unit with no instance in its name
UnitPath(name) == [unit |-> name, inst |-> <<>>, ext |-> ""]

\* CompGlobals.id_unit_string
id_unit_string(id) == simple_systemd_escape(IdChars[id], FALSE)

\* wm_specific_preloader and wm_specific_service of generate_units
wm_specific_preloader(id) ==
    [unit |-> "wayland-wm-env@", inst |-> id_unit_string(id),
     ext |-> ".service.d/50_custom.conf"]

wm_specific_service(id) ==
    [unit |-> "wayland-wm@", inst |-> id_unit_string(id),
     ext |-> ".service.d/50_custom.conf"]

\* the drop-ins of a compositor
DropIns(id) == {wm_specific_preloader(id), wm_specific_service(id)}

\* os.path.isabs on the executables of the model
isabs(path) == path \in {"/usr/bin/sway"}

\* which("waitpid") on the host
WaitpidPath == "/usr/bin/waitpid"

\* what update_unit and remove_unit carry along: the unit directory,
\* UnitsState.changed, and the paths whose call returned True
UnitsAcc(tr, changed, touched) == [tree |-> tr, changed |-> changed, touched |-> touched]

update_unit_no_compare(acc, dry_run, path, data) ==
    UnitsAcc(IF dry_run THEN acc.tree
             ELSE Update(acc.tree, [p \in {path} |-> data]),
             TRUE, acc.touched \cup {path})

update_unit_writes_in_dry_run(acc, dry_run, path, data) ==
    IF data = (IF path \in DOMAIN acc.tree THEN acc.tree[path] ELSE <<>>)
    THEN acc
    ELSE UnitsAcc(Update(acc.tree, [p \in {path} |-> data]),
                  TRUE, acc.touched \cup {path})

\* update_unit(unit, data)
update_unit(acc, dry_run, path, data) ==
    IF data = (IF path \in DOMAIN acc.tree THEN acc.tree[path] ELSE <<>>)
    THEN acc
    ELSE UnitsAcc(IF dry_run THEN acc.tree
                  ELSE Update(acc.tree, [p \in {path} |-> data]),
                  TRUE, acc.touched \cup {path})

remove_unit_flags_absent(acc, dry_run, path) ==
    UnitsAcc(IF dry_run THEN acc.tree ELSE PopAll(acc.tree, {path}),
             TRUE, acc.touched \cup {path})

\* remove_unit(unit)
remove_unit(acc, dry_run, path) ==
    IF path \in DOMAIN acc.tree
    THEN UnitsAcc(IF dry_run THEN acc.tree ELSE PopAll(acc.tree, {path}),
                  TRUE, acc.touched \cup {path})
    ELSE acc

\* one update_unit or remove_unit call
UnitCall(op, path, data) == [op |-> op, path |-> path, data |-> data]

RECURSIVE apply_unit_calls(_, _, _)
apply_unit_calls(calls, acc, dry_run) ==
    IF calls = <<>> THEN acc
    ELSE apply_unit_calls(
            Tail(calls),
            IF Head(calls).op = "update"
            THEN update_unit(acc, dry_run, Head(calls).path, Head(calls).data)
            ELSE remove_unit(acc, dry_run, Head(calls).path),
            dry_run)

\* the text of a unit that is the same for every compositor
GenericData(parts) == <<<<"X-UWSM-ID=", "GENERIC">>>> \o parts

\* wayland_wm_slice
wayland_wm_slice(use_session_slice) ==
    IF use_session_slice THEN "session.slice" ELSE "app.slice"

\* bindpid_cmd
bindpid_cmd(waitpid_path) ==
    IF waitpid_path # "" THEN <<waitpid_path, "-e">> ELSE <<"uwsm", "aux", "waitpid">>

\* description_substring
description_substring(comp) ==
    SelectSeq(<<IF comp.name # "" THEN comp.name ELSE comp.bin_name,
                comp.description>>,
              LAMBDA s : s # "")

\* the desktop names part of preloader_exec
preloader_names(comp) ==
    IF comp.cli_desktop_names_exclusive
    THEN <<"-eD">> \o comp.cli_desktop_names
    ELSE IF comp.desktop_names # <<comp.bin_name>>
         THEN <<"-D">> \o comp.desktop_names
         ELSE <<>>

\* preloader_exec, empty when no ExecStart is to be written
preloader_exec(comp) ==
    IF preloader_names(comp) # <<>> \/ isabs(comp.cmdline[1])
    THEN preloader_names(comp) \o <<"--", "%I">>
            \o (IF isabs(comp.cmdline[1]) THEN <<comp.cmdline[1]>> ELSE <<>>)
    ELSE <<>>

\* service_exec
service_exec(comp) ==
    IF isabs(comp.cmdline[1]) THEN comp.cmdline
    ELSE IF comp.cli_args # <<>> THEN <<"">> \o comp.cli_args
    ELSE <<>>

\* the Description and ExecStart parts of a drop-in
description_part(comp, what) ==
    IF comp.name # "" \/ comp.description # ""
    THEN <<<<"Description=", what>> \o description_substring(comp)>>
    ELSE <<>>

exec_part(base, exec) ==
    IF exec # <<>> THEN <<<<"ExecStart=">> \o base \o exec>> ELSE <<>>

\* wm_specific_preloader_data
wm_specific_preloader_data(comp) ==
    <<<<"X-UWSM-ID=", comp.id>>>>
       \o description_part(comp, "Environment preloader for")
       \o exec_part(<<"uwsm", "aux", "prepare-env">>, preloader_exec(comp))

wm_specific_service_data_with_exec(comp) ==
    <<<<"X-UWSM-ID=", comp.id>>>>
       \o description_part(comp, "Main service for")
       \o exec_part(<<"uwsm", "aux", "exec", "--", "%I">>, <<"">>)

\* wm_specific_service_data
wm_specific_service_data(comp) ==
    <<<<"X-UWSM-ID=", comp.id>>>>
       \o description_part(comp, "Main service for")
       \o exec_part(<<"uwsm", "aux", "exec", "--", "%I">>, service_exec(comp))

\* the last step of a drop-in: written when it has more than its header,
\* removed otherwise
drop_in_call(path, data) ==
    IF Len(data) > 1 THEN UnitCall("update", path, data)
    ELSE UnitCall("remove", path, <<>>)

\* the update_unit and remove_unit calls of generate_units, in its order
generate_units_calls(comp, slice, waitpid_path) ==
    <<UnitCall("update", UnitPath("wayland-session-pre@.target"), GenericData(<<>>)),
      UnitCall("update", UnitPath("wayland-session@.target"), GenericData(<<>>)),
      UnitCall("update", UnitPath("wayland-session-xdg-autostart@.target"), GenericData(<<>>)),
      UnitCall("update", UnitPath("wayland-session-shutdown.target"), GenericData(<<>>)),
      UnitCall("update", UnitPath("wayland-wm-env@.service"), GenericData(<<<<"Slice=", slice>>>>)),
      UnitCall("update", UnitPath("wayland-wm@.service"), GenericData(<<<<"Slice=", slice>>>>)),
      UnitCall("update", UnitPath("wayland-session-waitenv.service"), GenericData(<<>>)),
      UnitCall("update", UnitPath("wayland-wm-app-daemon.service"), GenericData(<<<<"Slice=", slice>>>>)),
      UnitCall("update", UnitPath("wayland-session-bindpid@.service"),
               GenericData(<<<<"ExecStart=">> \o bindpid_cmd(waitpid_path)>>)),
      UnitCall("update", UnitPath("app-graphical.slice"), GenericData(<<>>)),
      UnitCall("update", UnitPath("background-graphical.slice"), GenericData(<<>>)),
      UnitCall("update", UnitPath("session-graphical.slice"), GenericData(<<>>)),
      drop_in_call(wm_specific_preloader(comp.id), wm_specific_preloader_data(comp)),
      drop_in_call(wm_specific_service(comp.id), wm_specific_service_data(comp)),
      UnitCall("update", UnitPath("app-@autostart.service.d/slice-tweak.conf"), GenericData(<<>>)),
      UnitCall("update", UnitPath("xdg-desktop-portal-gtk.service.d/order-tweak.conf"), GenericData(<<>>)),
      UnitCall("update", UnitPath("plasma-xdg-desktop-portal-kde.service.d/order-tweak.conf"), GenericData(<<>>))>>

\* generate_units: UnitsState.changed is reset, then every unit is
\* written or removed
generate_units(tr, comp, use_session_slice, dry_run) ==
    apply_unit_calls(
        generate_units_calls(comp, wayland_wm_slice(use_session_slice), WaitpidPath),
        UnitsAcc(tr, FALSE, {}), dry_run)

\* a piece of a line that cannot be decoded as UTF-8
Undecodable == "\\xff"

\* unit_file.readlines() under remove_units' try: the lines of the file, none
\* when the read raises
unit_file_readlines(data) ==
    IF \E i \in DOMAIN data : \E k \in DOMAIN data[i] : data[i][k] = Undecodable
    THEN <<>>
    ELSE data

\* line.strip(): the line without the white space at its ends
RECURSIVE line_strip(_)
line_strip(line) ==
    IF line = <<>> THEN line
    ELSE IF Head(line) = " " THEN line_strip(Tail(line))
    ELSE IF line[Len(line)] = " " THEN line_strip(SubSeq(line, 1, Len(line) - 1))
    ELSE line

marked_line_any_id(line, only) ==
    line_strip(line) # <<>> /\ Head(line_strip(line)) = "X-UWSM-ID="

\* the test remove_units makes on a line
marked_line(line, only) ==
    IF only # ""
    THEN line_strip(line) = <<"X-UWSM-ID=", only>>
    ELSE line_strip(line) # <<>> /\ Head(line_strip(line)) = "X-UWSM-ID="

\* the files remove_units collects: those with a line X-UWSM-ID=<only>, or
\* with a line that starts with X-UWSM-ID= when only is empty
marked_units(tr, only) ==
    {path \in DOMAIN tr :
        \E i \in DOMAIN unit_file_readlines(tr[path]) :
            marked_line(unit_file_readlines(tr[path])[i], only)}

RECURSIVE remove_unit_calls(_)
remove_unit_calls(paths) ==
    IF paths = {} THEN <<>>
    ELSE <<UnitCall("remove", CHOOSE path \in paths : TRUE, <<>>)>>
            \o remove_unit_calls(paths \ {CHOOSE path \in paths : TRUE})

\* remove_units(only), in a process whose UnitsState.changed is changed
remove_units(tr, changed, only, dry_run) ==
    apply_unit_calls(remove_unit_calls(marked_units(tr, only)),
                     UnitsAcc(tr, changed, {}), dry_run)

----------------------------------------------------------------------------
(* "uwsm start" and "uwsm stop", one command at a time                     *)

\* CompGlobals as fill_comp_globals leaves them
Compositor(id, name, description, desktop_names, cli_desktop_names, exclusive, cmdline) ==
    [id |-> id, bin_name |-> "sway", name |-> name,
     description |-> description, desktop_names |-> desktop_names,
     cli_desktop_names |-> cli_desktop_names,
     cli_desktop_names_exclusive |-> exclusive, cmdline |-> cmdline,
     cli_args |-> Tail(cmdline)]

\* uwsm start sway
PlainSway == Compositor("sway", "", "", <<"sway">>, <<>>, FALSE, <<"sway">>)

\* the command lines of the model: plain; -N and -C; -D; -e -D with the
\* binary's own name; an absolute executable; an argument for the
\* compositor; another id for the same binary
Compositors ==
    {PlainSway,
     Compositor("sway", "Sway", "Tiling", <<"sway">>, <<>>, FALSE, <<"sway">>),
     Compositor("sway", "", "", <<"sway", "wlroots">>, <<"wlroots">>, FALSE, <<"sway">>),
     Compositor("sway", "", "", <<"sway">>, <<"sway">>, TRUE, <<"sway">>),
     Compositor("sway", "", "", <<"sway">>, <<>>, FALSE, <<"/usr/bin/sway">>),
     Compositor("sway", "", "", <<"sway">>, <<>>, FALSE, <<"sway", "--debug">>),
     Compositor("labwc", "", "", <<"sway">>, <<>>, FALSE, <<"sway">>)}

\* the unit directory an earlier session of sway, started with a name and
\* an argument, has left
StaleTree ==
    generate_units(
        EmptyDict,
        Compositor("sway", "Sway", "", <<"sway">>, <<>>, FALSE, <<"sway", "--debug">>),
        TRUE, FALSE).tree

InitUnits ==
    /\ tree \in {EmptyDict, StaleTree}
    /\ run = NoCommand
    /\ passes = 0
    /\ SessionOff
    /\ EscapeOff
    /\ StopOff
    /\ WaitOff

\* what the command does after generate_units or remove_units
after_units_skip_reload(changed) == "post"

after_units(changed) == IF changed THEN "reload" ELSE "post"

\* main, "start", up to the end of generate_units
Start ==
    /\ UNCHANGED wait_state
    /\ run.pc = "done"
    /\ passes < MaxPasses
    /\ passes' = passes + 1
    /\ \E comp \in Compositors, use_session_slice \in BOOLEAN,
          dry_run \in BOOLEAN, only_generate \in BOOLEAN :
         \E cmd \in {Command("start", "generate", comp, use_session_slice,
                             dry_run, only_generate, "no",
                             /\ run.mode = "start"
                             /\ run.generated
                             /\ run.comp = comp
                             /\ run.use_session_slice = use_session_slice
                             /\ run.dry_run = dry_run)} :
           IF units_in({"active", "activating"}) # {} /\ ~dry_run
           THEN /\ run' = [cmd EXCEPT !.pc = "done", !.exit = "1"]
                /\ tree' = tree
           ELSE \E g \in {generate_units(tree, comp, use_session_slice, dry_run)} :
                  /\ tree' = g.tree
                  /\ run' = [cmd EXCEPT !.pc = after_units(g.changed),
                                        !.changed = g.changed,
                                        !.generated = TRUE,
                                        !.gen_changed = g.changed,
                                        !.touched = g.touched,
                                        !.before = tree]
    /\ UNCHANGED <<session_state, escape_state, stop_state>>

\* reload_systemd is called: in a dry run it prints and resets the flag;
\* otherwise it asks the service manager to reload, which gives a job or
\* raises
ReloadCall ==
    /\ UNCHANGED wait_state
    /\ run.pc = "reload"
    /\ \/ /\ run.dry_run
          /\ run' = [run EXCEPT !.pc = "post", !.changed = FALSE,
                                !.reload = "printed",
                                !.reloads = run.reloads + 1]
       \/ /\ ~run.dry_run
          /\ run' = [run EXCEPT !.pc = "reload_wait", !.reload = "pending",
                                !.reloads = run.reloads + 1]
       \/ /\ ~run.dry_run
          /\ run' = [run EXCEPT !.pc = IF run.mode = "start" THEN "done" ELSE "post",
                                !.reload = "raised",
                                !.reloads = run.reloads + 1,
                                !.exit = IF run.mode = "start" THEN "1" ELSE ""]
    /\ UNCHANGED <<session_state, escape_state, stop_state, tree, passes>>

\* the service manager finishes the reload job
ReloadJobDone ==
    /\ UNCHANGED wait_state
    /\ run.reload = "pending"
    /\ run' = [run EXCEPT !.reload = "finished"]
    /\ UNCHANGED <<session_state, escape_state, stop_state, tree, passes>>

\* reload_systemd finds its job gone from the job list and returns
ReloadReturn ==
    /\ UNCHANGED wait_state
    /\ run.pc = "reload_wait"
    /\ run.reload = "finished"
    /\ run' = [run EXCEPT !.pc = "post", !.changed = FALSE,
                          !.reload = "completed"]
    /\ UNCHANGED <<session_state, escape_state, stop_state, tree, passes>>

\* main, "start", after the units: it exits when only generation or a dry
\* run was asked for, and starts wayland-session-bindpid@<pid>.service
\* otherwise
StartAfterUnits ==
    /\ UNCHANGED wait_state
    /\ run.mode = "start"
    /\ run.pc = "post"
    /\ run' = IF run.only_generate \/ run.dry_run
              THEN [run EXCEPT !.pc = "done", !.exit = "0"]
              ELSE [run EXCEPT !.pc = "exec",
                               !.jobs = Append(run.jobs, "bindpid")]
    /\ UNCHANGED <<session_state, escape_state, stop_state, tree, passes>>

\* main, "start": the process becomes "systemctl --user start --wait
\* wayland-wm@<id>.service"
StartExec ==
    /\ UNCHANGED wait_state
    /\ run.mode = "start"
    /\ run.pc = "exec"
    /\ run' = [run EXCEPT !.pc = "done", !.jobs = Append(run.jobs, "wm"),
                          !.exit = "0"]
    /\ unit' = [unit EXCEPT ![run.comp.id] =
                   IF unit[run.comp.id] = "inactive" THEN "activating"
                   ELSE unit[run.comp.id]]
    /\ UNCHANGED <<sysenv, dbusenv, dbus_unit, ledger, envsvc, watcher, last, nops, cap>>
    /\ UNCHANGED <<escape_state, stop_state, tree, passes>>

\* the compositor of a started unit exits
WmExits(id) ==
    /\ UNCHANGED wait_state
    /\ unit[id] # "inactive"
    /\ run.mode # "idle"
    /\ unit' = [unit EXCEPT ![id] = "inactive"]
    /\ UNCHANGED <<sysenv, dbusenv, dbus_unit, ledger, envsvc, watcher, last, nops, cap>>
    /\ UNCHANGED <<escape_state, stop_state, units_state>>

\* main, "stop", up to the end of remove_units: stop_wm stops the first
\* unit listed and waits for the job, then the units are removed if asked
Stop ==
    /\ UNCHANGED wait_state
    /\ run.pc = "done"
    /\ passes < MaxPasses
    /\ passes' = passes + 1
    /\ \E dry_run \in BOOLEAN, only \in {"no", "", "sway"},
          first \in units_in({"active", "activating"}) \cup {""} :
         /\ first = "" <=> units_in({"active", "activating"}) = {}
         /\ unit' = IF first # "" /\ ~dry_run
                    THEN [unit EXCEPT ![first] = "inactive"]
                    ELSE unit
         /\ \E cmd \in {Command("stop", "post", NoCompositor, FALSE, dry_run,
                                FALSE, only, FALSE)} :
              \E r \in {IF only = "no" THEN UnitsAcc(tree, FALSE, {})
                        ELSE remove_units(tree, FALSE, only, dry_run)} :
                /\ tree' = r.tree
                /\ run' = [cmd EXCEPT !.pc = after_units(r.changed),
                                      !.changed = r.changed,
                                      !.gen_changed = r.changed,
                                      !.touched = r.touched,
                                      !.before = tree,
                                      !.stopped = IF first # "" /\ ~dry_run
                                                  THEN <<first>> ELSE <<>>]
    /\ UNCHANGED <<sysenv, dbusenv, dbus_unit, ledger, envsvc, watcher, last, nops, cap>>
    /\ UNCHANGED <<escape_state, stop_state>>

\* main, "stop": sys.exit(stop_rc)
StopExit ==
    /\ UNCHANGED wait_state
    /\ run.mode = "stop"
    /\ run.pc = "post"
    /\ run' = [run EXCEPT !.pc = "done", !.exit = "0"]
    /\ UNCHANGED <<session_state, escape_state, stop_state, tree, passes>>

NextUnits ==
    \/ Start
    \/ ReloadCall
    \/ ReloadJobDone
    \/ ReloadReturn
    \/ StartAfterUnits
    \/ StartExec
    \/ \E id \in WmIds : WmExits(id)
    \/ Stop
    \/ StopExit

SpecUnits == InitUnits /\ [][NextUnits]_vars

----------------------------------------------------------------------------
(* Claims about unit generation and the start and stop commands *)

\* the update_unit calls generate_units can make
UpdateCalls ==
    {c \in UNION {{generate_units_calls(comp, slice, WaitpidPath)[i] : i \in 1..17} :
                     comp \in Compositors, slice \in {"app.slice", "session.slice"}} :
        c.op = "update"}

\* UnitsState.changed after update_unit is called twice with path and data
\* on the unit directory tr, the flag being clear before the second call
second_update_changed(tr, dry_run, path, data) ==
    update_unit(
        UnitsAcc(update_unit(UnitsAcc(tr, FALSE, {}), dry_run, path, data).tree,
                 FALSE, {}),
        dry_run, path, data).changed

\* C11 as stated: a second update_unit call with the same path and data
\* never sets UnitsState.changed, and a generate_units pass that follows a
\* pass with the same inputs ends with the flag clear and reloads nothing.
C11_Original ==
    /\ \A c \in UpdateCalls :
          ~second_update_changed(tree, run.dry_run, c.path, c.data)
    /\ (run.again /\ run.generated) =>
          /\ ~run.gen_changed
          /\ run.reloads = 0

\* C11 amended: outside a dry run, a second update_unit call with the same
\* path and data never sets UnitsState.changed, and a generate_units pass
\* that follows a pass with the same inputs writes nothing, ends with the
\* flag clear and reloads nothing.  (In a dry run nothing is written, so
\* every call that finds other data sets the flag again.)
C11_SecondWriteClean ==
    /\ \A c \in UpdateCalls :
          ~second_update_changed(tree, FALSE, c.path, c.data)
    /\ (run.again /\ run.generated /\ ~run.dry_run) =>
          /\ ~run.gen_changed
          /\ run.touched = {}
          /\ tree = run.before
          /\ run.reloads = 0

C11_Witness ==
    /\ run.again
    /\ run.generated
    /\ ~run.dry_run
    /\ run.pc = "done"
    /\ run.exit = "0"
    /\ DropIns("sway") \subseteq DOMAIN tree
    /\ \E c \in UpdateCalls : c.path \notin DOMAIN tree \/ tree[c.path] # c.data

\* a generate_units or remove_units pass of the current command is over
PassDone == run.generated \/ run.mode = "stop"

\* the paths at which two unit directories differ
DiffPaths(a, b) ==
    {path \in DOMAIN a \cup DOMAIN b :
        IF path \in DOMAIN a /\ path \in DOMAIN b THEN a[path] # b[path]
        ELSE TRUE}

\* C12 as stated: a pass sets UnitsState.changed only by a write or a
\* removal that altered the unit directory; a pass is followed by at most
\* one reload, and only if the flag was set; after the reload the flag is
\* clear.
C12_Original ==
    PassDone =>
        /\ run.gen_changed => tree # run.before
        /\ run.reloads <= 1
        /\ run.reloads = 1 => run.gen_changed
        /\ run.reload \in {"completed", "printed"} => ~run.changed

\* C12 amended: a pass sets UnitsState.changed exactly when one of its
\* update_unit or remove_unit calls found the unit directory different
\* from what it was to leave; outside a dry run these calls altered the
\* directory at exactly their paths, in a dry run they altered nothing.  A
\* pass is followed by at most one reload_systemd call, and only if the
\* flag was set; when reload_systemd returns the flag is clear.
C12_FlagFollowsChange ==
    PassDone =>
        /\ run.gen_changed <=> run.touched # {}
        /\ ~run.dry_run => run.touched = DiffPaths(run.before, tree)
        /\ run.dry_run => tree = run.before
        /\ run.changed => run.gen_changed
        /\ run.reloads <= 1
        /\ run.reloads = 1 => run.gen_changed
        /\ run.reload \in {"completed", "printed"} => ~run.changed
        /\ (run.pc = "done" /\ run.gen_changed /\ run.mode = "start"
                /\ run.reload # "raised") => run.reloads = 1

C12_Witness ==
    /\ run.mode = "start"
    /\ run.pc = "done"
    /\ run.reload = "completed"
    /\ ~run.changed
    /\ run.touched = {wm_specific_service("sway")}
    /\ wm_specific_service("sway") \notin DOMAIN tree
    /\ wm_specific_service("sway") \in DOMAIN run.before

NoOverrides(comp) ==
    /\ comp.name = ""
    /\ comp.description = ""
    /\ comp.desktop_names = <<comp.bin_name>>
    /\ ~isabs(comp.cmdline[1])
    /\ comp.cli_args = <<>>

\* a generate_units pass for app.slice and a compositor without overrides
\* is over
PlainPassDone ==
    /\ run.mode = "start"
    /\ run.generated
    /\ ~run.use_session_slice
    /\ NoOverrides(run.comp)

\* C19 as stated: such a pass leaves no drop-in file of the compositor (one
\* that was there is removed), and on an empty unit directory it ends with
\* UnitsState.changed set.
C19_Original ==
    PlainPassDone =>
        /\ DropIns(run.comp.id) \cap DOMAIN tree = {}
        /\ run.before = EmptyDict => run.gen_changed

\* C19 amended: such a pass, outside a dry run and without exclusive
\* desktop names (-e), leaves no drop-in file of the compositor; with -e
\* the preloader drop-in is written even when the names given are the
\* binary's name alone, and a dry run leaves the drop-ins it finds.  On an
\* empty unit directory the pass ends with UnitsState.changed set in every
\* case.
C19_NoDropInsWithoutOverrides ==
    PlainPassDone =>
        /\ (~run.dry_run /\ ~run.comp.cli_desktop_names_exclusive) =>
              DropIns(run.comp.id) \cap DOMAIN tree = {}
        /\ (~run.dry_run /\ run.comp.cli_desktop_names_exclusive) =>
              DropIns(run.comp.id) \cap DOMAIN tree
                 = {wm_specific_preloader(run.comp.id)}
        /\ run.dry_run => tree = run.before
        /\ run.before = EmptyDict => run.gen_changed

C19_Witness ==
    /\ PlainPassDone
    /\ ~run.dry_run
    /\ ~run.comp.cli_desktop_names_exclusive
    /\ DropIns(run.comp.id) \subseteq DOMAIN run.before
    /\ DropIns(run.comp.id) \subseteq run.touched
    /\ DropIns(run.comp.id) \cap DOMAIN tree = {}
    /\ run.gen_changed

----------------------------------------------------------------------------
(* Claims about the session: readiness, cleanup, several units at once *)

\* C20 as stated, for the callers of get_active_wm_unit: when finalize or
\* the readiness watcher finds two or more compositor units active or
\* activating, the lookup raises nothing, and the command goes on with the
\* first unit listed.
C20_Original ==
    (last.op \in {"finalize", "watcher"}
        /\ Cardinality(units_in({"active", "activating"})) >= 2)
    => last.outcome # "lookup_raised"

\* C14: a compositor unit goes from activating to active only by the ready
\* notification of finalize or of the readiness watcher, and only while
\* its preloader is up, that is after "aux prepare-env" of that compositor
\* ended with prepare_env returned (ledger written, delta exported);
\* finalize notifies only after it found the ledger of that compositor,
\* appended to it and exported.
C14_ReadyAfterCapture ==
    [][\A id \in WmIds :
          (unit[id] = "activating" /\ unit'[id] = "active") =>
              /\ last'.op \in {"finalize", "watcher"}
              /\ envsvc[id] = "active"
              /\ last'.op = "finalize" =>
                    /\ last'.id = id
                    /\ last'.outcome = "ok"
                    /\ ledger[id].exists
                    /\ last'.append.called
                    /\ last'.append.raised = "none"
                    /\ "WAYLAND_DISPLAY" \in DOMAIN sysenv']_vars

C14_Witness ==
    /\ nops = 3
    /\ last.op = "finalize"
    /\ last.id = "sway"
    /\ last.outcome = "ok"
    /\ unit = [id \in WmIds |-> IF id = "sway" THEN "active" ELSE "inactive"]
    /\ envsvc["sway"] = "active"
    /\ ledger["sway"].exists

----------------------------------------------------------------------------
(* "uwsm stop" run by two processes at once: stop_wm step by step          *)

\* the orders in which the service manager may list the units of S
Orderings(S) ==
    {order \in [1..Cardinality(S) -> S] :
        \A i, j \in 1..Cardinality(S) : order[i] = order[j] => i = j}

last_listed(units) == units[Len(units)]

\* units[0], the unit stop_wm stops
first_listed(units) == units[1]

InitStop ==
    /\ unit \in [WmIds -> {"inactive", "activating", "active"}]
    /\ envsvc = [id \in WmIds |-> IF unit[id] = "inactive" THEN "inactive" ELSE "active"]
    /\ sysenv = EmptyDict
    /\ dbusenv = EmptyDict
    /\ dbus_unit = "dbus-broker.service"
    /\ ledger = [id \in WmIds |-> NoFile]
    /\ watcher = [id \in WmIds |-> NoWatch]
    /\ last = NoRun
    /\ nops = 0
    /\ cap = NoCapture
    /\ EscapeOff
    /\ UnitsOff
    /\ StopOff
    /\ WaitOff

\* stop_wm lists the compositor units that are active or activating; with
\* none it returns False, in a dry run it returns True without stopping
StopList(p) ==
    /\ UNCHANGED wait_state
    /\ stoppers[p].pc = "idle"
    /\ \E dry_run \in BOOLEAN,
          units \in Orderings(units_in({"active", "activating"})) :
         stoppers' = [stoppers EXCEPT ![p] =
            [pc |-> IF units = <<>> \/ dry_run THEN "done" ELSE "listed",
             dry_run |-> dry_run, units |-> units, job |-> "",
             ret |-> IF units = <<>> THEN "False"
                     ELSE IF dry_run THEN "True" ELSE "none"]]
    /\ UNCHANGED <<session_state, escape_state, units_state, stop_jobs>>

\* bus_session.stop_unit(units[0], "fail"): a job is queued, or the call
\* raises (the unit is gone by now, or its start job is still running)
StopIssue(p) ==
    /\ UNCHANGED wait_state
    /\ stoppers[p].pc = "listed"
    /\ \E u \in {first_listed(stoppers[p].units)} :
         \/ /\ unit[u] # "inactive"
            /\ stoppers' = [stoppers EXCEPT ![p].pc = "issued", ![p].job = u]
            /\ stop_jobs' = [stop_jobs EXCEPT ![u] =
                               [queued |-> TRUE, asked |-> stop_jobs[u].asked + 1]]
         \/ /\ unit[u] # "active"
            /\ stoppers' = [stoppers EXCEPT ![p].pc = "done", ![p].ret = "raised"]
            /\ stop_jobs' = stop_jobs
    /\ UNCHANGED <<session_state, escape_state, units_state>>

\* the service manager runs the stop job of a unit
StopJobRuns(id) ==
    /\ UNCHANGED wait_state
    /\ stop_jobs[id].queued
    /\ stop_jobs' = [stop_jobs EXCEPT ![id].queued = FALSE]
    /\ unit' = [unit EXCEPT ![id] = "inactive"]
    /\ UNCHANGED <<sysenv, dbusenv, dbus_unit, ledger, envsvc, watcher, last, nops, cap>>
    /\ UNCHANGED <<escape_state, units_state, stoppers>>

\* stop_wm finds its job gone from the job list and returns True
StopWait(p) ==
    /\ UNCHANGED wait_state
    /\ stoppers[p].pc = "issued"
    /\ ~stop_jobs[stoppers[p].job].queued
    /\ stoppers' = [stoppers EXCEPT ![p].pc = "done", ![p].ret = "True"]
    /\ UNCHANGED <<session_state, escape_state, units_state, stop_jobs>>

NextStop ==
    \/ \E p \in Stoppers : StopList(p)
    \/ \E p \in Stoppers : StopIssue(p)
    \/ \E id \in WmIds : StopJobRuns(id)
    \/ \E p \in Stoppers : StopWait(p)

SpecStop == InitStop /\ [][NextStop]_vars

----------------------------------------------------------------------------
(* Claims about finalize and the exit codes of the session commands *)

\* a step that is a run of "finalize"
FinalizeStep == last'.op = "finalize" /\ nops' = nops + 1

\* that run got as far as looking the compositor unit up (WAYLAND_DISPLAY
\* was set in its environment)
FinalizeLookedUp == ~(last'.outcome = "raised" /\ last'.append = NoAppend)

\* some unit active or activating and an activating unit with another id
UnitConflict ==
    \E a \in units_in({"active", "activating"}), b \in units_in({"activating"}) :
        a # b

\* C21 as stated: a finalize that looks the unit up when no compositor
\* unit is active or activating, or when the active-or-activating unit is
\* not the activating one, exits 1 and leaves ledger, activation
\* environment and unit states as they were.
C21_Original ==
    [][(FinalizeStep /\ FinalizeLookedUp
          /\ (units_in({"active", "activating"}) = {} \/ UnitConflict))
       => (/\ last'.exit = 1
           /\ ledger' = ledger
           /\ sysenv' = sysenv
           /\ dbusenv' = dbusenv
           /\ unit' = unit)]_vars

\* C22 as stated, for the commands of the session: a command exits 0 when
\* it succeeded and 1 when it caught and reported a failure.
C22_Original ==
    last.op # "none" => last.exit = (IF last.outcome = "ok" THEN 0 ELSE 1)

\* C23 as stated, for the reload of the service manager in start and stop:
\* a command whose reload call failed ends reporting failure (exit code 1).
C23_Original ==
    (run.pc = "done" /\ run.reload = "raised") => run.exit = "1"

----------------------------------------------------------------------------
(* The session holder forked by "uwsm start", beside its parent process *)

\* range(30, -1, -1): the first value of attempt
HolderAttempts == 30

holder_timed_out_never(attempt) == FALSE

\* "if attempt == 0": the attempts are used up
holder_timed_out(attempt) == attempt = 0

\* the holder right after the fork: the parent is about to become
\* "systemctl --user start --wait wayland-wm@<id>.service"
InitHolder ==
    /\ holder \in {[pc |-> "poll", id |-> id, attempt |-> HolderAttempts,
                    polls |-> 0, kills |-> 0, parent |-> "forked",
                    exit |-> ""] : id \in WmIds}
    /\ SessionOff
    /\ EscapeOff
    /\ UnitsOff
    /\ StopOff
    /\ ForkOff
    /\ SessionRunOff
    /\ StopModeOff
    /\ GraphOff
    /\ StartersOff
    /\ WaitenvOff
    /\ JobWaitOff
    /\ UnitCallOff
    /\ RemovalOff

\* one pass of the holder's loop: it exits 0 when the parent is gone, on
\* the last attempt it signals the parent and exits 1, otherwise it sleeps
\* and lists the unit, which may raise
HolderAttempt ==
    /\ holder.pc = "poll"
    /\ IF holder.parent = "exited"
       THEN holder' = [holder EXCEPT !.pc = "done", !.exit = "0"]
       ELSE IF holder_timed_out(holder.attempt)
       THEN \E gone \in BOOLEAN :
              holder' = [holder EXCEPT !.pc = "done", !.exit = "1",
                                       !.kills = holder.kills + 1,
                                       !.parent = IF gone THEN "exited"
                                                  ELSE "signalled"]
       ELSE \/ holder' = [holder EXCEPT !.pc = "done", !.exit = "1",
                                        !.polls = holder.polls + 1]
            \/ holder' = [holder EXCEPT
                            !.polls = holder.polls + 1,
                            !.pc = IF unit[holder.id] \in {"active", "activating"}
                                      \/ holder.attempt <= 0
                                   THEN "found" ELSE "poll",
                            !.attempt = IF unit[holder.id] \in {"active", "activating"}
                                        THEN holder.attempt
                                        ELSE holder.attempt - 1]
    /\ UNCHANGED <<session_state, escape_state, units_state, stop_state>>
    /\ UNCHANGED <<starters, wenv, jobw, uc, rm, graph, sm, ss, fk>>

\* after the loop: "systemctl show --property MainPID"; with a numeric
\* answer the holder waits for that process, otherwise it exits 1
HolderMainPid ==
    /\ holder.pc = "found"
    /\ \E numeric \in BOOLEAN :
         holder' = IF numeric THEN [holder EXCEPT !.pc = "holding"]
                   ELSE [holder EXCEPT !.pc = "done", !.exit = "1"]
    /\ UNCHANGED <<session_state, escape_state, units_state, stop_state>>
    /\ UNCHANGED <<starters, wenv, jobw, uc, rm, graph, sm, ss, fk>>

\* waitpid returns: the compositor's main process has ended
HolderWaitpid ==
    /\ holder.pc = "holding"
    /\ unit[holder.id] = "inactive"
    /\ holder' = [holder EXCEPT !.pc = "done", !.exit = "0"]
    /\ UNCHANGED <<session_state, escape_state, units_state, stop_state>>
    /\ UNCHANGED <<starters, wenv, jobw, uc, rm, graph, sm, ss, fk>>

\* the parent execs systemctl, which queues the start job of the unit
HolderParentExec ==
    /\ holder.parent = "forked"
    /\ holder' = [holder EXCEPT !.parent = "systemctl"]
    /\ unit' = [unit EXCEPT ![holder.id] = "activating"]
    /\ UNCHANGED <<sysenv, dbusenv, dbus_unit, ledger, envsvc, watcher, last, nops, cap>>
    /\ UNCHANGED <<escape_state, units_state, stop_state>>
    /\ UNCHANGED <<starters, wenv, jobw, uc, rm, graph, sm, ss, fk>>

\* the unit is declared ready
HolderUnitReady ==
    /\ unit[holder.id] = "activating"
    /\ unit' = [unit EXCEPT ![holder.id] = "active"]
    /\ UNCHANGED <<sysenv, dbusenv, dbus_unit, ledger, envsvc, watcher, last, nops, cap>>
    /\ UNCHANGED <<escape_state, units_state, stop_state, wait_state>>

\* the unit fails to start, is stopped, or the compositor exits
HolderUnitStops ==
    /\ unit[holder.id] \in {"activating", "active"}
    /\ unit' = [unit EXCEPT ![holder.id] = "inactive"]
    /\ UNCHANGED <<sysenv, dbusenv, dbus_unit, ledger, envsvc, watcher, last, nops, cap>>
    /\ UNCHANGED <<escape_state, units_state, stop_state, wait_state>>

\* the parent ends: systemctl returns once the unit has stopped, or the
\* process is killed or fails at any time
HolderParentExits ==
    /\ holder.parent \in {"forked", "systemctl", "signalled"}
    /\ holder' = [holder EXCEPT !.parent = "exited"]
    /\ UNCHANGED <<session_state, escape_state, units_state, stop_state>>
    /\ UNCHANGED <<starters, wenv, jobw, uc, rm, graph, sm, ss, fk>>

NextHolder ==
    \/ HolderAttempt
    \/ HolderMainPid
    \/ HolderWaitpid
    \/ HolderParentExec
    \/ HolderUnitReady
    \/ HolderUnitStops
    \/ HolderParentExits

\* the holder is a process of its own: it keeps running
SpecHolder == InitHolder /\ [][NextHolder]_vars /\ WF_vars(HolderAttempt)

\* C24: the holder lists the unit at most 30 times and leaves its loop;
\* it sends SIGTERM to the parent only on timeout, after 30 listings that
\* did not show the unit, once, and then exits 1; when it has seen the
\* unit it has sent no signal and goes on to the main PID; it exits 0 from
\* the loop only when the parent is gone, without a signal.
C24_HolderBounded ==
    /\ [](/\ holder.polls <= HolderAttempts
          /\ holder.kills <= 1
          /\ holder.kills = 1 =>
                /\ holder.polls = HolderAttempts
                /\ holder.attempt = 0
                /\ holder.pc = "done"
                /\ holder.exit = "1"
          /\ (holder.pc = "done" /\ holder.attempt = 0 /\ holder.exit = "1") =>
                holder.kills = 1
          /\ holder.pc \in {"found", "holding"} => holder.kills = 0
          /\ (holder.pc = "done" /\ holder.exit = "0") => holder.kills = 0)
    /\ [][(holder.pc = "poll" /\ holder'.exit = "0") =>
             (holder.parent = "exited" /\ holder'.polls = holder.polls)]_vars
    /\ (holder.pc = "poll" ~> holder.pc # "poll")

\* the holder timed out: 30 listings, one SIGTERM to a parent still there
C24_Witness ==
    /\ holder.pc = "done"
    /\ holder.exit = "1"
    /\ holder.polls = HolderAttempts
    /\ holder.kills = 1
    /\ holder.parent = "signalled"
    /\ unit[holder.id] = "inactive"

----------------------------------------------------------------------------
(* "uwsm start" run by two processes at once: the check and the dispatch *)

\* the compositors one of whose units matched by is_active() is active or
\* activating: wayland-wm@<id>.service, or wayland-session-pre@<id>.target,
\* which is up once the preloader of <id> has run
units_up == {id \in WmIds : unit[id] \in {"active", "activating"} \/ envsvc[id] = "active"}

is_active_never(up) == FALSE

\* is_active(): whether any unit it lists is active or activating
is_active(up) == up # {}

InitStarts ==
    /\ SessionOff
    /\ EscapeOff
    /\ UnitsOff
    /\ StopOff
    /\ ForkOff
    /\ SessionRunOff
    /\ StopModeOff
    /\ GraphOff
    /\ HolderOff
    /\ StartersOff
    /\ WaitenvOff
    /\ JobWaitOff
    /\ UnitCallOff
    /\ RemovalOff

\* main, "start", up to the is_active check: exit 1 when something is
\* active and this is no dry run
StartCheck(p) ==
    /\ starters[p].pc = "idle"
    /\ \E id \in WmIds, dry_run \in BOOLEAN :
         starters' = [starters EXCEPT ![p] =
            [pc |-> IF is_active(units_up) /\ ~dry_run THEN "exited" ELSE "checked",
             id |-> id, dry_run |-> dry_run, seen |-> units_up, job |-> "",
             over |-> {},
             exit |-> IF is_active(units_up) /\ ~dry_run THEN "1" ELSE ""]]
    /\ UNCHANGED <<session_state, escape_state, units_state, stop_state, holder, wenv, jobw, uc, rm, graph, sm, ss, fk>>

\* main, "start", from generate_units on: a dry run exits 0; otherwise the
\* process becomes systemctl, which queues the start job of the unit
StartDispatch(p) ==
    /\ starters[p].pc = "checked"
    /\ starters' = [starters EXCEPT ![p] =
          IF starters[p].dry_run
          THEN [starters[p] EXCEPT !.pc = "exited", !.exit = "0"]
          ELSE [starters[p] EXCEPT !.pc = "dispatched", !.job = "queued",
                                   !.over = units_up]]
    /\ UNCHANGED <<session_state, escape_state, units_state, stop_state, holder, wenv, jobw, uc, rm, graph, sm, ss, fk>>

\* the start job pulls in wayland-wm-env@<id>.service, and with it
\* wayland-session-pre@<id>.target
StartJobPreloader(p) ==
    /\ starters[p].job = "queued"
    /\ starters' = [starters EXCEPT ![p].job = "preloaded"]
    /\ envsvc' = [envsvc EXCEPT ![starters[p].id] = "active"]
    /\ UNCHANGED <<sysenv, dbusenv, dbus_unit, ledger, unit, watcher, last, nops, cap>>
    /\ UNCHANGED <<escape_state, units_state, stop_state, holder, wenv, jobw, uc, rm, graph, sm, ss, fk>>

\* the start job runs wayland-wm@<id>.service
StartJobUnit(p) ==
    /\ starters[p].job = "preloaded"
    /\ starters' = [starters EXCEPT ![p].job = "run"]
    /\ unit' = [unit EXCEPT ![starters[p].id] =
                  IF unit[starters[p].id] = "inactive" THEN "activating"
                  ELSE unit[starters[p].id]]
    /\ UNCHANGED <<sysenv, dbusenv, dbus_unit, ledger, envsvc, watcher, last, nops, cap>>
    /\ UNCHANGED <<escape_state, units_state, stop_state, holder, wenv, jobw, uc, rm, graph, sm, ss, fk>>

\* a started unit is declared ready
StartedUnitReady(id) ==
    /\ unit[id] = "activating"
    /\ unit' = [unit EXCEPT ![id] = "active"]
    /\ UNCHANGED <<sysenv, dbusenv, dbus_unit, ledger, envsvc, watcher, last, nops, cap>>
    /\ UNCHANGED <<escape_state, units_state, stop_state, wait_state>>

\* a started unit stops, and its preloader and targets with it
StartedUnitStops(id) ==
    /\ unit[id] \in {"activating", "active"}
    /\ \A p \in Stoppers : starters[p].id = id => starters[p].job \in {"", "run"}
    /\ unit' = [unit EXCEPT ![id] = "inactive"]
    /\ envsvc' = [envsvc EXCEPT ![id] = "inactive"]
    /\ UNCHANGED <<sysenv, dbusenv, dbus_unit, ledger, watcher, last, nops, cap>>
    /\ UNCHANGED <<escape_state, units_state, stop_state, wait_state>>

NextStarts ==
    \/ \E p \in Stoppers : StartCheck(p)
    \/ \E p \in Stoppers : StartDispatch(p)
    \/ \E p \in Stoppers : StartJobPreloader(p)
    \/ \E p \in Stoppers : StartJobUnit(p)
    \/ \E id \in WmIds : StartedUnitReady(id)
    \/ \E id \in WmIds : StartedUnitStops(id)

SpecStarts == InitStarts /\ [][NextStarts]_vars

\* C25 as stated: whatever the interleaving of start commands, a start job
\* is dispatched only while nothing is active or activating, and two
\* compositor units are never up together.
C25_Original ==
    /\ \A p \in Stoppers : starters[p].job # "" => starters[p].over = {}
    /\ Cardinality(units_in({"active", "activating"})) <= 1

\* C25 amended: a start command dispatches the start job only if its own
\* is_active check, made before unit generation, found nothing active or
\* activating; a start whose check finds something exits 1 and dispatches
\* nothing, unless it is a dry run, which never dispatches.  Nothing is
\* checked again at dispatch.
C25_DispatchAfterOwnCheck ==
    /\ [](\A p \in Stoppers :
            /\ starters[p].job # "" =>
                  (starters[p].seen = {} /\ ~starters[p].dry_run)
            /\ (starters[p].pc # "idle" /\ starters[p].seen # {}
                   /\ ~starters[p].dry_run) =>
                  (starters[p].pc = "exited" /\ starters[p].exit = "1")
            /\ starters[p].exit = "1" => starters[p].seen # {})
    /\ [][\A p \in Stoppers :
            (starters[p].pc = "idle" /\ starters'[p].pc # "idle") =>
               starters'[p].seen
                  = {id \in WmIds : unit[id] \in {"active", "activating"}
                                       \/ envsvc[id] = "active"}]_vars

\* one start was refused because of the session another one started
C25_Witness ==
    /\ starters[1].pc = "dispatched"
    /\ starters[1].job = "run"
    /\ starters[1].id = "sway"
    /\ starters[2].pc = "exited"
    /\ starters[2].exit = "1"
    /\ starters[2].seen = {"sway"}
    /\ unit["sway"] = "active"

C27_Original ==
    [][FinalizeStep =>
          /\ (unit' # unit) <=> units_in({"activating"}) # {}
          /\ (units_in({"activating"}) = {} /\ units_in({"active"}) # {}
                 /\ FinalizeLookedUp) => last'.exit = 0]_vars

\* C27 amended: finalize notifies readiness only when the unit is
\* activating at the time it checks, and then only if it got to its end:
\* the lookup returned one unit, the ledger of that compositor was there
\* and the export went through; the unit notified is the activating one.
\* When the one unit is already active and the run gets to its end it
\* notifies nothing and exits 0, having appended to the ledger and exported
\* all the same.
C27_NotifyOnlyWhenActivating ==
    [][FinalizeStep =>
          /\ unit' # unit =>
                /\ units_in({"activating"}) = {last'.id}
                /\ units_in({"active"}) = {}
                /\ unit' = [unit EXCEPT ![last'.id] = "active"]
                /\ last'.outcome = "ok"
                /\ last'.append.called
                /\ last'.append.raised = "none"
          /\ (last'.outcome = "ok" /\ units_in({"activating"}) # {}) =>
                unit' # unit
          /\ (last'.outcome = "ok" /\ units_in({"activating"}) = {}) =>
                /\ unit' = unit
                /\ units_in({"active"}) = {last'.id}
                /\ last'.exit = 0
                /\ last'.append.called]_vars

\* finalize run in a session whose unit is already active: exit 0, ledger
\* appended, nothing notified
C27_Witness ==
    /\ last.op = "finalize"
    /\ last.outcome = "ok"
    /\ last.exit = 0
    /\ last.append.called
    /\ unit[last.id] = "active"
    /\ units_in({"activating"}) = {}
    /\ last.id = "sway"

----------------------------------------------------------------------------
(* waitenv: waiting for variables to appear in the activation environment *)

\* the largest timeout given to waitenv, in units of the smallest step
MaxTimeout == 3

\* the names that come and go in the activation environment meanwhile
WaitNames == {"WAYLAND_DISPLAY", "FOO"}

max_attempts_one_more(timeout, step) == (timeout \div step) + 1

\* int(timeout // step): the attempts of range(1, int(timeout // step) + 1)
max_attempts(timeout, step) == timeout \div step

\* varnames as waitenv takes them: when none are given they are
\* ["WAYLAND_DISPLAY"], otherwise they go through filter_varnames
waitenv_varnames(given, varnames) ==
    IF ~given THEN {"WAYLAND_DISPLAY"}
    ELSE filter_varnames_set(varnames)

InitWaitenv ==
    /\ \E args \in {<<FALSE, {}>>, <<TRUE, {"WAYLAND_DISPLAY", "FOO"}>>,
                    <<TRUE, {"FOO"}>>},
          timeout \in 0..MaxTimeout, step \in {1, 2} :
         wenv = [pc |-> "poll",
                 varnames_set |-> waitenv_varnames(args[1], args[2]),
                 timeout |-> timeout, step |-> step, attempt |-> 1,
                 varnames_exist_set |-> {}, log |-> <<>>, result |-> "",
                 named |-> {}]
    /\ sysenv \in {EmptyDict, [n \in {"FOO"} |-> "1"]}
    /\ dbusenv = EmptyDict
    /\ dbus_unit = "dbus-broker.service"
    /\ ledger = [id \in WmIds |-> NoFile]
    /\ envsvc = [id \in WmIds |-> "inactive"]
    /\ unit = [id \in WmIds |-> "inactive"]
    /\ watcher = [id \in WmIds |-> NoWatch]
    /\ last = NoRun
    /\ nops = 0
    /\ cap = NoCapture
    /\ EscapeOff
    /\ UnitsOff
    /\ StopOff
    /\ ForkOff
    /\ SessionRunOff
    /\ StopModeOff
    /\ GraphOff
    /\ HolderOff
    /\ StartersOff
    /\ JobWaitOff
    /\ UnitCallOff
    /\ RemovalOff

\* waitenv ends with TimeoutError, naming what it has not seen
waitenv_timeout(w, exist) ==
    [w EXCEPT !.pc = "done", !.result = "TimeoutError",
              !.varnames_exist_set = exist,
              !.named = w.varnames_set \ exist]

\* one attempt of waitenv's loop, or the end of the loop: the listing may
\* raise; with every name there waitenv returns; otherwise it notes the
\* names that appeared and goes on, unless the time is up
WaitenvAttempt ==
    /\ wenv.pc = "poll"
    /\ IF wenv.attempt > max_attempts(wenv.timeout, wenv.step)
       THEN wenv' = waitenv_timeout(wenv, wenv.varnames_exist_set)
       ELSE \/ wenv' = [wenv EXCEPT !.pc = "done", !.result = "raised"]
            \/ \E aenv_varnames_set \in {Keys(sysenv)} :
                 \E w \in {[wenv EXCEPT !.log = Append(wenv.log, aenv_varnames_set)]} :
                   IF w.varnames_set \subseteq aenv_varnames_set
                   THEN wenv' = [w EXCEPT !.pc = "done", !.result = "returned"]
                   ELSE \E exist \in {w.varnames_exist_set
                                        \cup (w.varnames_set \cap aenv_varnames_set)} :
                          \/ wenv' = waitenv_timeout(w, exist)
                          \/ wenv' = [w EXCEPT !.varnames_exist_set = exist,
                                               !.attempt = w.attempt + 1]
    /\ UNCHANGED <<session_state, escape_state, units_state, stop_state, holder, starters, jobw, uc, rm, graph, sm, ss, fk>>

\* some process exports a variable to the activation environment
WaitenvEnvSet(n) ==
    /\ wenv.pc = "poll"
    /\ n \notin DOMAIN sysenv
    /\ sysenv' = SetEnvironment(sysenv, [m \in {n} |-> "1"])
    /\ UNCHANGED <<dbusenv, dbus_unit, ledger, envsvc, unit, watcher, last, nops, cap>>
    /\ UNCHANGED <<escape_state, units_state, stop_state, wait_state>>

\* some process unsets a variable of the activation environment
WaitenvEnvUnset(n) ==
    /\ wenv.pc = "poll"
    /\ n \in DOMAIN sysenv
    /\ sysenv' = UnsetEnvironment(sysenv, {n})
    /\ UNCHANGED <<dbusenv, dbus_unit, ledger, envsvc, unit, watcher, last, nops, cap>>
    /\ UNCHANGED <<escape_state, units_state, stop_state, wait_state>>

NextWaitenv ==
    \/ WaitenvAttempt
    \/ \E n \in WaitNames : WaitenvEnvSet(n)
    \/ \E n \in WaitNames : WaitenvEnvUnset(n)

\* waitenv is a process of its own: it keeps running
SpecWaitenv == InitWaitenv /\ [][NextWaitenv]_vars /\ WF_vars(WaitenvAttempt)

\* C28: waitenv always ends; it lists the activation environment at most
\* floor(timeout/step) times; it returns only when its last listing holds
\* every wanted name; otherwise it raises TimeoutError naming the wanted
\* names that no listing held, names seen only in earlier listings
\* not counting towards a return.
C28_WaitenvTerminates ==
    /\ [](/\ Len(wenv.log) * wenv.step <= wenv.timeout
          /\ wenv.result = "returned" =>
                /\ wenv.log # <<>>
                /\ wenv.varnames_set \subseteq wenv.log[Len(wenv.log)]
          /\ wenv.result = "TimeoutError" =>
                /\ wenv.named = wenv.varnames_set
                                   \ UNION {wenv.log[i] : i \in 1..Len(wenv.log)}
                /\ \A i \in 1..Len(wenv.log) :
                      ~(wenv.varnames_set \subseteq wenv.log[i]))
    /\ (wenv.pc = "poll" ~> wenv.pc = "done")

\* both names were seen, never together: TimeoutError naming nothing
C28_Witness ==
    /\ wenv.result = "TimeoutError"
    /\ wenv.varnames_set = {"WAYLAND_DISPLAY", "FOO"}
    /\ wenv.log = <<{"FOO"}, {"WAYLAND_DISPLAY"}>>
    /\ wenv.named = {}

----------------------------------------------------------------------------
(* The wait for a job in reload_systemd and stop_wm *)

\* listings a wait is followed for
MaxPolls == 3

\* list_systemd_jobs: the object paths of the jobs the service manager
\* has: ours while it is listed, and those of other units
list_systemd_jobs(job, others) == others \cup (IF job = "listed" THEN {"job/ours"} ELSE {})

\* jobs of other units
OtherJobs == {"job/1", "job/2"}

job_absent_always(job, jobs) == TRUE

\* "if job not in [check_job[4] for check_job in jobs]"
job_absent(job, jobs) == job \notin jobs

\* reload_systemd or stop_wm is about to ask the service manager for a job
InitJobWait ==
    /\ \E caller \in {"reload_systemd", "stop_wm"}, others \in SUBSET OtherJobs :
         jobw = [pc |-> "submit", caller |-> caller, job |-> "none",
                 others |-> others, polls |-> 0, result |-> ""]
    /\ SessionOff
    /\ EscapeOff
    /\ UnitsOff
    /\ StopOff
    /\ ForkOff
    /\ SessionRunOff
    /\ StopModeOff
    /\ GraphOff
    /\ HolderOff
    /\ StartersOff
    /\ WaitenvOff
    /\ UnitCallOff
    /\ RemovalOff

\* bus_session.reload_systemd() or bus_session.stop_unit(): the call
\* raises or gives a job; whether the job shows in the job list yet, or
\* has finished already, is up to the service manager
JobSubmit ==
    /\ jobw.pc = "submit"
    /\ \/ jobw' = [jobw EXCEPT !.pc = "done", !.result = "raised"]
       \/ \E job \in {"unregistered", "listed", "gone"} :
            jobw' = [jobw EXCEPT !.pc = "wait", !.job = job]
    /\ UNCHANGED <<session_state, escape_state, units_state, stop_state, holder, starters, wenv, uc, rm, graph, sm, ss, fk>>

\* one pass of "while True": list the jobs; leave the loop if the job is
\* not among them, else sleep.  Listings are counted up to MaxPolls.
JobWaitPoll ==
    /\ jobw.pc = "wait"
    /\ \E jobs \in {list_systemd_jobs(jobw.job, jobw.others)} :
         jobw' = IF job_absent("job/ours", jobs)
                 THEN [jobw EXCEPT !.pc = "done", !.result = "returned"]
                 ELSE [jobw EXCEPT !.polls = IF jobw.polls < MaxPolls
                                             THEN jobw.polls + 1
                                             ELSE jobw.polls]
    /\ UNCHANGED <<session_state, escape_state, units_state, stop_state, holder, starters, wenv, uc, rm, graph, sm, ss, fk>>

\* list_systemd_jobs raises
JobWaitRaises ==
    /\ jobw.pc = "wait"
    /\ jobw' = [jobw EXCEPT !.pc = "done", !.result = "raised"]
    /\ UNCHANGED <<session_state, escape_state, units_state, stop_state, holder, starters, wenv, uc, rm, graph, sm, ss, fk>>

\* the service manager enters the job in its list
JobRegisters ==
    /\ jobw.job = "unregistered"
    /\ jobw' = [jobw EXCEPT !.job = "listed"]
    /\ UNCHANGED <<session_state, escape_state, units_state, stop_state, holder, starters, wenv, uc, rm, graph, sm, ss, fk>>

\* the service manager finishes the job and drops it from its list
JobFinishes ==
    /\ jobw.job = "listed"
    /\ jobw' = [jobw EXCEPT !.job = "gone"]
    /\ UNCHANGED <<session_state, escape_state, units_state, stop_state, holder, starters, wenv, uc, rm, graph, sm, ss, fk>>

\* a job of another unit is queued
OtherJobComes(o) ==
    /\ jobw.pc \in {"submit", "wait"}
    /\ o \notin jobw.others
    /\ jobw' = [jobw EXCEPT !.others = jobw.others \cup {o}]
    /\ UNCHANGED <<session_state, escape_state, units_state, stop_state, holder, starters, wenv, uc, rm, graph, sm, ss, fk>>

\* a job of another unit finishes
OtherJobGoes(o) ==
    /\ jobw.pc \in {"submit", "wait"}
    /\ o \in jobw.others
    /\ jobw' = [jobw EXCEPT !.others = jobw.others \ {o}]
    /\ UNCHANGED <<session_state, escape_state, units_state, stop_state, holder, starters, wenv, uc, rm, graph, sm, ss, fk>>

NextJobWait ==
    \/ JobSubmit
    \/ JobWaitPoll
    \/ JobWaitRaises
    \/ JobRegisters
    \/ JobFinishes
    \/ \E o \in OtherJobs : OtherJobComes(o)
    \/ \E o \in OtherJobs : OtherJobGoes(o)

\* the waiting process keeps running; the service manager owes nothing
SpecJobWait == InitJobWait /\ [][NextJobWait]_vars /\ WF_vars(JobWaitPoll)

\* C29 as stated: the wait returns only when the job has finished, and a
\* wait always ends, by a timeout if the job stays in the list.
C29_Original ==
    /\ [](jobw.result = "returned" => jobw.job = "gone")
    /\ (jobw.pc = "wait" ~> jobw.pc = "done")

\* C29 amended: the wait returns at the first listing that does not hold
\* its job and never at a listing that holds it: a job not yet entered in
\* the list counts as done, a job that was listed and is gone ends the
\* wait at the next listing, and a job that stays listed is waited for
\* without end.
C29_ReturnsWhenNotListed ==
    /\ [][(jobw.result # "returned" /\ jobw'.result = "returned")
             => jobw.job # "listed"]_vars
    /\ [][jobw'.polls = jobw.polls + 1 => jobw.job = "listed"]_vars
    /\ [](jobw.polls > 0 => jobw.job \in {"listed", "gone"})
    /\ ((jobw.pc = "wait" /\ jobw.job = "gone") ~> jobw.pc = "done")

\* the job was seen listed at every listing so far, then went
C29_Witness ==
    /\ jobw.result = "returned"
    /\ jobw.polls = MaxPolls
    /\ jobw.job = "gone"
    /\ jobw.caller = "stop_wm"
    /\ jobw.others # {}

----------------------------------------------------------------------------
\* update_unit and remove_unit on unit paths given as strings: the check of
\* the unit's extension and of a relative path's depth that both make before
\* they look at the unit directory (main.py, update_unit and remove_unit;
\* misc.py, Val.unit_ext).  A path is the sequence of its characters.

\* [a-zA-Z0-9_:.\\-] of Val.unit_ext
UnitNameChars == WordChars \cup {":", ".", "\\", "-"}

\* the tail of s from position i on
TailFrom(s, i) == SubSeq(s, i, Len(s))

\* s ends with suf
EndsWith(s, suf) ==
    /\ Len(s) >= Len(suf)
    /\ TailFrom(s, Len(s) - Len(suf) + 1) = suf

\* service|slice|scope|target|socket of Val.unit_ext
UnitTypes ==
    {<<"s","e","r","v","i","c","e">>, <<"s","l","i","c","e">>,
     <<"s","c","o","p","e">>, <<"t","a","r","g","e","t">>,
     <<"s","o","c","k","e","t">>}

\* d/[a-zA-Z0-9_:.\\-]+.conf of Val.unit_ext, matched against the whole of
\* rest: "d/", one or more name characters, any one character but a newline,
\* "conf"
dropin_conf_match(rest) ==
    /\ Len(rest) >= 8
    /\ SubSeq(rest, 1, 2) = <<"d", "/">>
    /\ \A i \in 3..(Len(rest) - 5) : rest[i] \in UnitNameChars
    /\ rest[Len(rest) - 4] # "\n"
    /\ TailFrom(rest, Len(rest) - 3) = <<"c","o","n","f">>

\* Val.unit_ext.search(unit): somewhere in unit a name character, an optional
\* "@", a ".", and then one of the alternatives up to the end of the string
unit_ext_search(upath) ==
    \E k \in 1..Len(upath) :
        /\ upath[k] \in UnitNameChars
        /\ \E dot \in {k + 1, k + 2} :
            /\ dot <= Len(upath)
            /\ dot = k + 2 => upath[k + 1] = "@"
            /\ upath[dot] = "."
            /\ \/ TailFrom(upath, dot + 1) \in UnitTypes
               \/ dropin_conf_match(TailFrom(upath, dot + 1))

\* os.path.isabs(unit) on a path given as a string
unit_isabs(upath) == upath # <<>> /\ upath[1] = "/"

\* unit.count("/")
count_slashes(upath) == Cardinality({i \in 1..Len(upath) : upath[i] = "/"})

\* the runtime unit directory of get_unit_path, with its closing "/"
RuntimeUnitDir == <<"/","r","u","n","/">>

\* os.path.normpath on an absolute path that has no "." and no ".."
\* component: runs of "/" collapse to one
RECURSIVE normpath(_)
normpath(upath) ==
    IF Len(upath) < 2 THEN upath
    ELSE IF upath[1] = "/" /\ upath[2] = "/" THEN normpath(Tail(upath))
    ELSE <<upath[1]>> \o normpath(Tail(upath))

\* unit_path of update_unit and remove_unit
unit_path(upath) == IF unit_isabs(upath) THEN normpath(upath) ELSE RuntimeUnitDir \o upath

\* the ValueError update_unit and remove_unit raise before they look at the
\* unit directory, "none" where they go on
unit_check(upath) ==
    IF ~unit_ext_search(upath) THEN "unsupported extension"
    ELSE IF ~unit_isabs(upath) /\ count_slashes(upath) > 1 THEN "single subdir"
    ELSE "none"

\* the directory part of the paths tried
UnitDirs ==
    {<<>>, <<"a","/">>, <<"a","/","b","/">>, <<"/","r","/">>,
     <<"/","r","/","/","b","/">>}

\* the unit names tried, up to the last "."
UnitStems == {<<"u">>, <<"u","@">>, <<"u","@","i">>, <<>>}

\* the endings tried
UnitTails ==
    {<<".","s","e","r","v","i","c","e">>,
     <<".","s","l","i","c","e">>,
     <<".","s","c","o","p","e">>,
     <<".","t","a","r","g","e","t">>,
     <<".","s","o","c","k","e","t">>,
     <<".","s","e","r","v","i","c","e",".","d","/","c",".","c","o","n","f">>,
     <<".","s","e","r","v","i","c","e",".","d","/","c","X","c","o","n","f">>,
     <<".","s","e","r","v","i","c","e",".","d","/","c","o","n","f">>,
     <<".","d","/","c",".","c","o","n","f">>,
     <<".","m","o","u","n","t">>,
     <<".","t","i","m","e","r">>,
     <<".","c","o","n","f">>,
     <<"s","e","r","v","i","c","e">>,
     <<".","s","e","r","v","i","c","e","~">>}

UnitPaths == {d \o st \o t : d \in UnitDirs, st \in UnitStems, t \in UnitTails}

\* the unit file's content before the call, and the content update_unit is given
UnitOld == <<"old">>
UnitNew == <<"new">>

InitUnitCheck ==
    /\ \E upath \in UnitPaths, dry_run \in BOOLEAN, changed \in BOOLEAN, there \in BOOLEAN :
        uc = [NoUnitCall EXCEPT
                 !.phase = "ready", !.unit = upath, !.dry_run = dry_run,
                 !.changed = changed, !.changed_after = changed,
                 !.tree = IF there THEN [p \in {unit_path(upath)} |-> UnitOld]
                          ELSE EmptyDict,
                 !.tree_after = IF there THEN [p \in {unit_path(upath)} |-> UnitOld]
                                ELSE EmptyDict]
    /\ SessionOff
    /\ EscapeOff
    /\ tree = EmptyDict
    /\ run = NoCommand
    /\ passes = 0
    /\ StopOff
    /\ ForkOff
    /\ SessionRunOff
    /\ StopModeOff
    /\ GraphOff
    /\ HolderOff
    /\ StartersOff
    /\ WaitenvOff
    /\ JobWaitOff
    /\ RemovalOff

\* what a call that was not refused leaves behind
UnitCallDone(acc, raised) ==
    [uc EXCEPT !.phase = "done", !.raised = raised,
               !.tree_after = acc.tree, !.changed_after = acc.changed]

\* update_unit(unit, data)
UnitCheckUpdate ==
    /\ uc.phase = "ready"
    /\ LET raised == unit_check(uc.unit)
           acc == UnitsAcc(uc.tree, uc.changed, {})
       IN uc' = [UnitCallDone(
                     IF raised # "none" THEN acc
                     ELSE update_unit(acc, uc.dry_run, unit_path(uc.unit), UnitNew),
                     raised)
                 EXCEPT !.op = "update_unit", !.data = UnitNew]
    /\ UNCHANGED <<session_state, escape_state, units_state, stop_state,
                   holder, starters, wenv, jobw, rm, graph, sm, ss, fk>>

\* remove_unit(unit)
UnitCheckRemove ==
    /\ uc.phase = "ready"
    /\ LET raised == unit_check(uc.unit)
           acc == UnitsAcc(uc.tree, uc.changed, {})
       IN uc' = [UnitCallDone(
                     IF raised # "none" THEN acc
                     ELSE remove_unit(acc, uc.dry_run, unit_path(uc.unit)),
                     raised)
                 EXCEPT !.op = "remove_unit"]
    /\ UNCHANGED <<session_state, escape_state, units_state, stop_state,
                   holder, starters, wenv, jobw, rm, graph, sm, ss, fk>>

NextUnitCheck ==
    \/ UnitCheckUpdate
    \/ UnitCheckRemove

SpecUnitCheck == InitUnitCheck /\ [][NextUnitCheck]_vars

\* the last component of a path ends with ".conf" and the directory it lies
\* in ends with ".d"
IsDropinConf(upath) ==
    /\ EndsWith(upath, <<".","c","o","n","f">>)
    /\ \E i \in 1..Len(upath) :
        /\ upath[i] = "/"
        /\ \A j \in (i + 1)..Len(upath) : upath[j] # "/"
        /\ EndsWith(SubSeq(upath, 1, i - 1), <<".","d">>)

\* the path's suffix is one of .service, .slice, .scope, .target, .socket
\* or a drop-in .conf
AllowedSuffix(upath) ==
    \/ \E t \in UnitTypes : EndsWith(upath, <<".">> \o t)
    \/ IsDropinConf(upath)

\* a relative path with more than one subdirectory component
RelativeDeep(upath) ==
    /\ ~unit_isabs(upath)
    /\ \E i, j \in 1..Len(upath) : i < j /\ upath[i] = "/" /\ upath[j] = "/"

\* C30: update_unit and remove_unit refuse with an error, before any change
\* to the unit directory and without touching the units-changed flag, every
\* unit path whose suffix is not one of service, slice, scope, target, socket
\* or a drop-in .conf, and every relative unit path with more than one
\* subdirectory component.
C30_Original ==
    (uc.phase = "done" /\ (~AllowedSuffix(uc.unit) \/ RelativeDeep(uc.unit)))
        => /\ uc.raised # "none"
           /\ uc.tree_after = uc.tree
           /\ uc.changed_after = uc.changed

----------------------------------------------------------------------------
\* remove_units on a unit directory that holds more than the generated
\* units: files without the marker, files of another id, files remove_unit
\* refuses, files that cannot be read, and subdirectories with other files
\* in them (main.py, remove_units and remove_unit)

\* the characters of the parts the unit paths of the model are made of
PathChars(name) ==
    CASE name = "app-@autostart.service.d/slice-tweak.conf" -> <<"a","p","p","-","@","a","u","t","o","s","t","a","r","t",".","s","e","r","v","i","c","e",".","d","/","s","l","i","c","e","-","t","w","e","a","k",".","c","o","n","f">>
      [] name = "app-graphical.slice" -> <<"a","p","p","-","g","r","a","p","h","i","c","a","l",".","s","l","i","c","e">>
      [] name = "background-graphical.slice" -> <<"b","a","c","k","g","r","o","u","n","d","-","g","r","a","p","h","i","c","a","l",".","s","l","i","c","e">>
      [] name = "plasma-xdg-desktop-portal-kde.service.d/order-tweak.conf" -> <<"p","l","a","s","m","a","-","x","d","g","-","d","e","s","k","t","o","p","-","p","o","r","t","a","l","-","k","d","e",".","s","e","r","v","i","c","e",".","d","/","o","r","d","e","r","-","t","w","e","a","k",".","c","o","n","f">>
      [] name = "session-graphical.slice" -> <<"s","e","s","s","i","o","n","-","g","r","a","p","h","i","c","a","l",".","s","l","i","c","e">>
      [] name = "wayland-session-bindpid@.service" -> <<"w","a","y","l","a","n","d","-","s","e","s","s","i","o","n","-","b","i","n","d","p","i","d","@",".","s","e","r","v","i","c","e">>
      [] name = "wayland-session-pre@.target" -> <<"w","a","y","l","a","n","d","-","s","e","s","s","i","o","n","-","p","r","e","@",".","t","a","r","g","e","t">>
      [] name = "wayland-session-shutdown.target" -> <<"w","a","y","l","a","n","d","-","s","e","s","s","i","o","n","-","s","h","u","t","d","o","w","n",".","t","a","r","g","e","t">>
      [] name = "wayland-session-waitenv.service" -> <<"w","a","y","l","a","n","d","-","s","e","s","s","i","o","n","-","w","a","i","t","e","n","v",".","s","e","r","v","i","c","e">>
      [] name = "wayland-session-xdg-autostart@.target" -> <<"w","a","y","l","a","n","d","-","s","e","s","s","i","o","n","-","x","d","g","-","a","u","t","o","s","t","a","r","t","@",".","t","a","r","g","e","t">>
      [] name = "wayland-session@.target" -> <<"w","a","y","l","a","n","d","-","s","e","s","s","i","o","n","@",".","t","a","r","g","e","t">>
      [] name = "wayland-wm-app-daemon.service" -> <<"w","a","y","l","a","n","d","-","w","m","-","a","p","p","-","d","a","e","m","o","n",".","s","e","r","v","i","c","e">>
      [] name = "wayland-wm-env@.service" -> <<"w","a","y","l","a","n","d","-","w","m","-","e","n","v","@",".","s","e","r","v","i","c","e">>
      [] name = "wayland-wm@.service" -> <<"w","a","y","l","a","n","d","-","w","m","@",".","s","e","r","v","i","c","e">>
      [] name = "xdg-desktop-portal-gtk.service.d/order-tweak.conf" -> <<"x","d","g","-","d","e","s","k","t","o","p","-","p","o","r","t","a","l","-","g","t","k",".","s","e","r","v","i","c","e",".","d","/","o","r","d","e","r","-","t","w","e","a","k",".","c","o","n","f">>
      [] name = "wayland-wm-env@" -> <<"w","a","y","l","a","n","d","-","w","m","-","e","n","v","@">>
      [] name = "wayland-wm@" -> <<"w","a","y","l","a","n","d","-","w","m","@">>
      [] name = ".service.d/50_custom.conf" -> <<".","s","e","r","v","i","c","e",".","d","/","5","0","_","c","u","s","t","o","m",".","c","o","n","f">>
      [] name = ".service.d/90_user.conf" -> <<".","s","e","r","v","i","c","e",".","d","/","9","0","_","u","s","e","r",".","c","o","n","f">>
      [] name = "foreign.service" -> <<"f","o","r","e","i","g","n",".","s","e","r","v","i","c","e">>
      [] name = "other.service" -> <<"o","t","h","e","r",".","s","e","r","v","i","c","e">>
      [] name = "indented.service" -> <<"i","n","d","e","n","t","e","d",".","s","e","r","v","i","c","e">>
      [] name = "stale.timer" -> <<"s","t","a","l","e",".","t","i","m","e","r">>
      [] name = "a/b/deep.service" -> <<"a","/","b","/","d","e","e","p",".","s","e","r","v","i","c","e">>
      [] name = "broken.service" -> <<"b","r","o","k","e","n",".","s","e","r","v","i","c","e">>
      [] name = "" -> <<>>

\* the characters unit paths are made of, and their code points
PathCharOrder ==
    <<"-",".","/","0","1","2","3","4","5","6","7","8","9",":","@","A","B","C","D","E","F","G","H","I","J","K","L","M","N","O","P","Q","R","S","T","U","V","W","X","Y","Z","\\","_","a","b","c","d","e","f","g","h","i","j","k","l","m","n","o","p","q","r","s","t","u","v","w","x","y","z","~">>

PathCodes ==
    <<45,46,47,48,49,50,51,52,53,54,55,56,57,58,64,65,66,67,68,69,70,71,72,73,74,75,76,77,78,79,80,81,82,83,84,85,86,87,88,89,90,92,95,97,98,99,100,101,102,103,104,105,106,107,108,109,110,111,112,113,114,115,116,117,118,119,120,121,122,126>>

\* ord(c) and chr(n) on these characters
ord(c) == PathCodes[CHOOSE i \in 1..Len(PathCharOrder) : PathCharOrder[i] = c]

chr(n) == PathCharOrder[CHOOSE i \in 1..Len(PathCodes) : PathCodes[i] = n]

\* the characters of a unit path
path_chars(path) ==
    PathChars(path.unit) \o [i \in 1..Len(path.inst) |-> chr(path.inst[i])]
        \o PathChars(path.ext)

\* the place of the last "/" of a path, 0 when it has none
last_slash(s) ==
    IF \E i \in 1..Len(s) : s[i] = "/"
    THEN CHOOSE i \in 1..Len(s) : s[i] = "/" /\ \A j \in (i + 1)..Len(s) : s[j] # "/"
    ELSE 0

\* os.path.dirname and os.path.basename
path_dirname(s) == SubSeq(s, 1, last_slash(s) - 1)

path_basename(s) == SubSeq(s, last_slash(s) + 1, Len(s))

\* the code points of a string
codes(s) == [i \in 1..Len(s) |-> ord(s[i])]

\* Python's str comparison, on the code points of two strings
PathLess(s, t) ==
    \/ \E i \in 1..Len(s) :
          /\ i <= Len(t)
          /\ \A j \in 1..(i - 1) : s[j] = t[j]
          /\ s[i] < t[i]
    \/ /\ Len(s) < Len(t)
       /\ \A j \in 1..Len(s) : s[j] = t[j]

\* what sorted(os.walk(...)) and sorted(files) compare for a file: its
\* directory, then its name
walk_key(path) ==
    [path |-> path, dir |-> codes(path_dirname(path_chars(path))),
     name |-> codes(path_basename(path_chars(path)))]

\* the order in which remove_units meets two files
walk_before(p, q) ==
    \/ PathLess(p.dir, q.dir)
    \/ p.dir = q.dir /\ PathLess(p.name, q.name)

\* files, given by their keys, in the order of the walk
in_walk_order(keys) ==
    [i \in 1..Cardinality(keys) |->
        (CHOOSE p \in keys : Cardinality({q \in keys : walk_before(q, p)}) = i - 1).path]

\* unit_files of remove_units: the marked files in the order of the walk
unit_files(tr, only) == in_walk_order({walk_key(p) : p \in marked_units(tr, only)})

\* the directories above a path
dirs_above(c) == {SubSeq(c, 1, i - 1) : i \in {k \in 1..Len(c) : c[k] = "/"}}

\* the subdirectories of the unit directory that hold the files of a tree
dirs_of(tr) == UNION {dirs_above(path_chars(p)) : p \in DOMAIN tr}

\* set(os.listdir(unit_subdir_path)) - {unit_filename}: what the
\* subdirectory holds beside the file
listdir_others(st, sub, path) ==
    {path_chars(q) : q \in {f \in DOMAIN st.tree :
                               f # path /\ path_dirname(path_chars(f)) = sub}}
        \cup {d \in st.dirs : path_dirname(d) = sub /\ d # sub}

\* the unit directory as remove_units works on it: the files, the
\* subdirectories, UnitsState.changed and the error raised
UnitDir(tr, dirs, changed, raised) == [tree |-> tr, dirs |-> dirs, changed |-> changed, raised |-> raised]

remove_unit_rmdir_always(st, dry_run, path) ==
    IF unit_check(path_chars(path)) # "none"
    THEN [st EXCEPT !.raised = unit_check(path_chars(path))]
    ELSE UnitDir(remove_unit(UnitsAcc(st.tree, st.changed, {}), dry_run, path).tree,
                 IF dry_run THEN st.dirs
                 ELSE st.dirs \ {path_dirname(path_chars(path))},
                 remove_unit(UnitsAcc(st.tree, st.changed, {}), dry_run, path).changed,
                 "none")

\* remove_unit(unit) with its checks and with the subdirectory: the unit is
\* refused, or the file is removed and then its subdirectory if nothing
\* else is in it
remove_unit_in_dir(st, dry_run, path) ==
    IF unit_check(path_chars(path)) # "none"
    THEN [st EXCEPT !.raised = unit_check(path_chars(path))]
    ELSE UnitDir(remove_unit(UnitsAcc(st.tree, st.changed, {}), dry_run, path).tree,
                 IF /\ last_slash(path_chars(path)) > 0
                    /\ path_dirname(path_chars(path)) \in st.dirs
                    /\ listdir_others(st, path_dirname(path_chars(path)), path) = {}
                    /\ ~dry_run
                 THEN st.dirs \ {path_dirname(path_chars(path))}
                 ELSE st.dirs,
                 remove_unit(UnitsAcc(st.tree, st.changed, {}), dry_run, path).changed,
                 "none")

\* for file_path in unit_files: remove_unit(file_path), up to the first
\* that raises
RECURSIVE remove_units_from(_, _, _)
remove_units_from(files, st, dry_run) ==
    IF files = <<>> \/ st.raised # "none" THEN st
    ELSE remove_units_from(Tail(files), remove_unit_in_dir(st, dry_run, Head(files)), dry_run)

\* remove_units(only) on a unit directory
remove_units_in_dir(tr, dirs, changed, only, dry_run) ==
    remove_units_from(unit_files(tr, only), UnitDir(tr, dirs, changed, "none"), dry_run)

\* files of other origins: without the marker, beside a generated drop-in,
\* of another id, with the marker indented on a later line, with a name or
\* a depth remove_unit refuses, and one that cannot be decoded
ForeignFiles ==
    (UnitPath("foreign.service") :> <<<<"Description=", "x">>>>)
    @@ ([unit |-> "wayland-wm@", inst |-> id_unit_string("sway"),
         ext |-> ".service.d/90_user.conf"] :> <<<<"Environment=", "x">>>>)
    @@ (UnitPath("other.service") :> <<<<"X-UWSM-ID=", "labwc">>>>)
    @@ (UnitPath("indented.service")
            :> <<<<"Description=", "x">>, <<" ", "X-UWSM-ID=", "sway", " ">>>>)
    @@ (UnitPath("stale.timer") :> <<<<"X-UWSM-ID=", "sway">>>>)
    @@ (UnitPath("a/b/deep.service") :> <<<<"X-UWSM-ID=", "sway">>>>)
    @@ (UnitPath("broken.service") :> <<<<"X-UWSM-ID=", "sway">>, <<Undecodable>>>>)

\* the compositors whose units the directory may hold
RemovalCompositors ==
    {PlainSway,
     Compositor("sway", "Sway", "", <<"sway">>, <<>>, FALSE, <<"sway", "--debug">>)}

InitRemove ==
    /\ \E comp \in RemovalCompositors, fresh \in BOOLEAN, F \in SUBSET DOMAIN ForeignFiles :
        \E gen \in {IF fresh THEN generate_units(EmptyDict, comp, TRUE, FALSE).tree
                    ELSE EmptyDict} :
          \E tr \in {Update(gen, Restrict(ForeignFiles, F))} :
            rm = [NoRemoval EXCEPT
                     !.phase = "ready", !.id = comp.id, !.generated = gen,
                     !.tree = tr, !.dirs = dirs_of(tr),
                     !.tree_after = tr, !.dirs_after = dirs_of(tr)]
    /\ SessionOff
    /\ EscapeOff
    /\ tree = EmptyDict
    /\ run = NoCommand
    /\ passes = 0
    /\ StopOff
    /\ ForkOff
    /\ SessionRunOff
    /\ StopModeOff
    /\ GraphOff
    /\ HolderOff
    /\ StartersOff
    /\ WaitenvOff
    /\ JobWaitOff
    /\ UnitCallOff

\* remove_units(only)
RemoveUnits(only, dry_run) ==
    /\ rm.phase = "ready"
    /\ \E st \in {remove_units_in_dir(rm.tree, rm.dirs, FALSE, only, dry_run)} :
        rm' = [rm EXCEPT !.phase = "done", !.only = only, !.dry_run = dry_run,
                         !.tree_after = st.tree, !.dirs_after = st.dirs,
                         !.changed = st.changed, !.raised = st.raised]
    /\ UNCHANGED <<session_state, escape_state, units_state, stop_state,
                   holder, starters, wenv, jobw, uc, graph, sm, ss, fk>>

NextRemove ==
    \E only \in {"", "sway", "labwc"}, dry_run \in BOOLEAN : RemoveUnits(only, dry_run)

SpecRemove == InitRemove /\ [][NextRemove]_vars

\* a line without its white space
LineTokens(line) == SelectSeq(line, LAMBDA t : t # " ")

\* the file at path holds a line X-UWSM-ID=<only>, or, for an empty only, a
\* line that starts with X-UWSM-ID= (a line is compared without the white
\* space and the line end around it)
CarriesMarker(tr, path, only) ==
    \E i \in DOMAIN tr[path] :
        /\ LineTokens(tr[path][i]) # <<>>
        /\ LineTokens(tr[path][i])[1] = "X-UWSM-ID="
        /\ only # "" => LineTokens(tr[path][i]) = <<"X-UWSM-ID=", only>>

\* the file can be read as text
Decodable(data) == \A i \in DOMAIN data : \A k \in DOMAIN data[i] : data[i][k] # Undecodable

\* the files a call has removed
Removed == DOMAIN rm.tree \ DOMAIN rm.tree_after

\* a subdirectory that is gone held nothing any more
NoFullDirRemoved ==
    \A d \in rm.dirs \ rm.dirs_after :
        /\ \A p \in DOMAIN rm.tree_after : d \notin dirs_above(path_chars(p))
        /\ \A e \in rm.dirs_after : d \notin dirs_above(e)

\* the directory holds what generate_units has just written into an empty one
FreshlyGenerated == rm.generated # EmptyDict /\ rm.tree = rm.generated

----------------------------------------------------------------------------
\* The generated units under the service manager: what their Conflicts=,
\* OnFailure=, OnSuccess= and Before= lines make of a failure (main.py,
\* generate_units).  The service manager's side is the documented meaning of
\* these directives (systemd.unit(5)): a unit that fails or exits queues a
\* start job for its OnFailure= or OnSuccess= units, a start job queues stop
\* jobs for the active units that conflict with the unit started, and a unit
\* ordered Before= another is stopped before the other is started.

ShutdownTarget == "wayland-session-shutdown.target"

\* a unit text with no directive of these kinds
NoDirectives == [Conflicts |-> {}, Before |-> {}, OnFailure |-> {}, OnSuccess |-> {}]

\* Conflicts= and Before= wayland-session-shutdown.target
StopsAtShutdown == [NoDirectives EXCEPT !.Conflicts = {ShutdownTarget}, !.Before = {ShutdownTarget}]

\* the directives of the generated units, by unit file
GeneratedDirectives ==
    ("wayland-session-pre@.target" :>
        [StopsAtShutdown EXCEPT !.Before = {"graphical-session-pre.target", ShutdownTarget}])
    @@ ("wayland-session@.target" :>
        [StopsAtShutdown EXCEPT !.Before = {"graphical-session.target", ShutdownTarget}])
    @@ ("wayland-session-xdg-autostart@.target" :>
        [StopsAtShutdown EXCEPT !.Before = {"xdg-desktop-autostart.target", ShutdownTarget}])
    @@ (ShutdownTarget :>
        [NoDirectives EXCEPT
            !.Conflicts = {"graphical-session-pre.target", "graphical-session.target",
                           "xdg-desktop-autostart.target"}])
    @@ ("wayland-wm-env@.service" :>
        [StopsAtShutdown EXCEPT
            !.Before = {"wayland-session-pre@.target", "graphical-session-pre.target",
                        ShutdownTarget},
            !.OnSuccess = {ShutdownTarget}, !.OnFailure = {ShutdownTarget}])
    @@ ("wayland-wm@.service" :>
        [StopsAtShutdown EXCEPT
            !.Before = {"wayland-session@.target", "graphical-session.target",
                        ShutdownTarget},
            !.OnSuccess = {ShutdownTarget}, !.OnFailure = {ShutdownTarget}])
    @@ ("wayland-session-waitenv.service" :>
        [StopsAtShutdown EXCEPT
            !.Before = {"graphical-session.target", ShutdownTarget},
            !.OnFailure = {ShutdownTarget}])
    @@ ("wayland-wm-app-daemon.service" :> StopsAtShutdown)
    @@ ("wayland-session-bindpid@.service" :>
        [StopsAtShutdown EXCEPT
            !.OnSuccess = {ShutdownTarget}, !.OnFailure = {ShutdownTarget}])
    @@ ("app-graphical.slice" :> StopsAtShutdown)
    @@ ("background-graphical.slice" :> StopsAtShutdown)
    @@ ("session-graphical.slice" :> StopsAtShutdown)

unit_directives_daemon_outlives(name) ==
    IF name = "wayland-wm-app-daemon.service" THEN NoDirectives
    ELSE GeneratedDirectives[name]

\* the directives generate_units writes into a unit
unit_directives(name) == GeneratedDirectives[name]

\* the generated units that run during a session
GraphUnits == DOMAIN GeneratedDirectives \ {ShutdownTarget}

\* Conflicts= holds between two units when either names the other
conflicts(a, b) ==
    \/ b \in unit_directives(a).Conflicts
    \/ a \in unit_directives(b).Conflicts

\* the units of a session in the order a start brings them up
StartupOrder ==
    <<"session-graphical.slice", "wayland-wm-env@.service", "wayland-session-pre@.target",
      "wayland-wm@.service", "wayland-session@.target",
      "wayland-session-xdg-autostart@.target">>

\* units that come and go beside them
SideUnits ==
    {"wayland-session-bindpid@.service", "wayland-session-waitenv.service",
     "wayland-wm-app-daemon.service", "app-graphical.slice", "background-graphical.slice"}

StartJob(name) == [type |-> "start", unit |-> name]
StopJob(name) == [type |-> "stop", unit |-> name]

InitGraph ==
    /\ \E k \in 2..Len(StartupOrder), side \in SUBSET SideUnits :
        graph = [NoGraph EXCEPT
                    !.phase = "session",
                    !.active = {StartupOrder[i] : i \in 1..k} \cup side]
    /\ SessionOff
    /\ EscapeOff
    /\ tree = EmptyDict
    /\ run = NoCommand
    /\ passes = 0
    /\ StopOff
    /\ ForkOff
    /\ SessionRunOff
    /\ StopModeOff
    /\ HolderOff
    /\ StartersOff
    /\ WaitenvOff
    /\ JobWaitOff
    /\ UnitCallOff
    /\ RemovalOff

\* a service fails: OnFailure= queues its units
GraphUnitFails(name) ==
    /\ graph.phase = "session"
    /\ name \in graph.active
    /\ unit_directives(name).OnFailure # {}
    /\ graph' = [graph EXCEPT
                    !.phase = "shutdown",
                    !.active = @ \ {name},
                    !.failed = @ \cup {name},
                    !.jobs = @ \cup {StartJob(t) : t \in unit_directives(name).OnFailure},
                    !.cause = "failed"]
    /\ UNCHANGED <<session_state, escape_state, units_state, stop_state,
                   holder, starters, wenv, jobw, uc, rm, sm, ss, fk>>

\* a service exits cleanly: OnSuccess= queues its units
GraphUnitExits(name) ==
    /\ graph.phase = "session"
    /\ name \in graph.active
    /\ unit_directives(name).OnSuccess # {}
    /\ graph' = [graph EXCEPT
                    !.phase = "shutdown",
                    !.active = @ \ {name},
                    !.jobs = @ \cup {StartJob(t) : t \in unit_directives(name).OnSuccess},
                    !.cause = "exited"]
    /\ UNCHANGED <<session_state, escape_state, units_state, stop_state,
                   holder, starters, wenv, jobw, uc, rm, sm, ss, fk>>

\* the service manager takes up a start job: the active units that conflict
\* with the unit get stop jobs
GraphTransaction(name) ==
    /\ StartJob(name) \in graph.jobs
    /\ \E u \in graph.active : conflicts(u, name) /\ StopJob(u) \notin graph.jobs
    /\ graph' = [graph EXCEPT
                    !.jobs = @ \cup {StopJob(u) : u \in {a \in graph.active : conflicts(a, name)}}]
    /\ UNCHANGED <<session_state, escape_state, units_state, stop_state,
                   holder, starters, wenv, jobw, uc, rm, sm, ss, fk>>

\* a stop job runs
GraphStopJobRuns(name) ==
    /\ StopJob(name) \in graph.jobs
    /\ graph' = [graph EXCEPT
                    !.jobs = @ \ {StopJob(name)},
                    !.active = @ \ {name},
                    !.stopped = @ \cup {name}]
    /\ UNCHANGED <<session_state, escape_state, units_state, stop_state,
                   holder, starters, wenv, jobw, uc, rm, sm, ss, fk>>

\* a start job runs, once the units ordered before it that are to stop have
\* stopped and none that conflicts with it is left without a stop job
GraphStartJobRuns(name) ==
    /\ StartJob(name) \in graph.jobs
    /\ \A u \in graph.active : ~conflicts(u, name)
    /\ \A j \in graph.jobs : j.type = "stop" => name \notin unit_directives(j.unit).Before
    /\ graph' = [graph EXCEPT
                    !.jobs = @ \ {StartJob(name)},
                    !.active = @ \cup {name},
                    !.phase = "down"]
    /\ UNCHANGED <<session_state, escape_state, units_state, stop_state,
                   holder, starters, wenv, jobw, uc, rm, sm, ss, fk>>

GraphJobs ==
    \/ GraphTransaction(ShutdownTarget)
    \/ \E name \in GraphUnits : GraphStopJobRuns(name)
    \/ GraphStartJobRuns(ShutdownTarget)

NextGraph ==
    \/ \E name \in GraphUnits : GraphUnitFails(name)
    \/ \E name \in GraphUnits : GraphUnitExits(name)
    \/ GraphJobs

\* the service manager runs the jobs it has queued
SpecGraph == InitGraph /\ [][NextGraph]_vars /\ WF_vars(GraphJobs)

\* the units that are to be gone at shutdown
SessionPhaseUnits ==
    {"wayland-session-pre@.target", "wayland-session@.target",
     "wayland-session-xdg-autostart@.target", "wayland-wm-env@.service",
     "wayland-wm@.service", "wayland-session-waitenv.service",
     "wayland-wm-app-daemon.service", "wayland-session-bindpid@.service",
     "app-graphical.slice", "background-graphical.slice", "session-graphical.slice"}

\* C32: a failure of the environment preloader or of the compositor service,
\* and an exit of the bind-PID helper, each queue the start of the shutdown
\* target, and from there the graph comes to a state in which the shutdown
\* target is active and none of the session's units (the three targets, the
\* five services, the three slices) is.
C32_FailureStopsSession ==
    /\ [][\A name \in {"wayland-wm-env@.service", "wayland-wm@.service",
                       "wayland-session-bindpid@.service"} :
             (name \in graph.active /\ name \notin graph'.active /\ graph.jobs = {})
                 => [type |-> "start", unit |-> "wayland-session-shutdown.target"]
                        \in graph'.jobs]_vars
    /\ (graph.cause # "none")
          ~> (/\ graph.active \cap SessionPhaseUnits = {}
              /\ "wayland-session-shutdown.target" \in graph.active)

\* the compositor service has failed in a full session and the ten other
\* units have been stopped on the way to the shutdown target
C32_Witness ==
    /\ graph.cause = "failed"
    /\ graph.failed = {"wayland-wm@.service"}
    /\ graph.stopped = SessionPhaseUnits \ {"wayland-wm@.service"}
    /\ graph.active = {"wayland-session-shutdown.target"}

----------------------------------------------------------------------------
\* The virtual terminal and the login session prepare_env looks up, against
\* what the shell probe does to XDG_VTNR and XDG_SESSION_ID

IdentityVars == {"XDG_VTNR", "XDG_SESSION_ID"}

\* the value prepare_env has looked up for an identity variable
Resolved(n) == IF n = "XDG_VTNR" THEN ToString(cap.v_term) ELSE cap.session_id

\* a prepare_env that could not look one of them up has ended before the
\* probe, has asked for no export and no unset, and has left the activation
\* environment and the cleanup file as they were
UnresolvedLeavesNoTrace ==
    cap.phase = "raised" =>
        /\ ~cap.probed
        /\ ~cap.set_req.called
        /\ ~cap.unset_req.called
        /\ sysenv = cap.snapshot
        /\ ledger["sway"] = NoFile

\* C33 as stated: the values exported for XDG_VTNR and XDG_SESSION_ID are
\* the ones prepare_env looked up, whatever the probe did to them; and a
\* lookup that fails ends prepare_env before the probe, with nothing exported
\* and no ledger written.
C33_Original ==
    /\ cap.phase = "done" =>
          \A n \in IdentityVars :
              /\ n \in DOMAIN cap.set_req.arg
              /\ cap.set_req.arg[n] = Resolved(n)
    /\ UnresolvedLeavesNoTrace

\* C33: the values looked up replace the service manager's in the probe's
\* environment, and what is exported for XDG_VTNR and XDG_SESSION_ID is what
\* the probe ends with: the value looked up if the probe leaves it, the
\* probe's value if it sets another, and nothing if the probe removes the
\* variable (which is then unset if the service manager had it); and a lookup
\* that fails ends prepare_env before the probe, with nothing exported and no
\* ledger written.
C33_ProbeDecidesIdentity ==
    /\ cap.phase = "done" =>
          \A n \in IdentityVars :
              /\ n \in DOMAIN cap.env_pre
              /\ cap.env_pre[n] = Resolved(n)
              /\ n \in DOMAIN cap.raw_post =>
                    /\ n \in DOMAIN cap.set_req.arg
                    /\ cap.set_req.arg[n] = cap.raw_post[n]
                    /\ sysenv[n] = cap.raw_post[n]
              /\ n \notin DOMAIN cap.raw_post =>
                    /\ n \notin DOMAIN cap.set_req.arg
                    /\ n \in DOMAIN cap.snapshot => n \in cap.unset_req.arg
                    /\ n \notin DOMAIN sysenv
    /\ UnresolvedLeavesNoTrace

\* the service manager held XDG_VTNR=1, the terminal looked up is 2 and the
\* probe left it: 2 is exported; the session looked up is 1 and the probe
\* set 2: 2 is exported
C33_Witness ==
    /\ cap.phase = "done"
    /\ "XDG_VTNR" \in DOMAIN cap.snapshot
    /\ cap.snapshot["XDG_VTNR"] = "1"
    /\ cap.v_term = 2
    /\ IdentityVars \subseteq DOMAIN cap.raw_post
    /\ cap.raw_post["XDG_VTNR"] = "2"
    /\ sysenv["XDG_VTNR"] = "2"
    /\ cap.session_id = "1"
    /\ cap.raw_post["XDG_SESSION_ID"] = "2"
    /\ sysenv["XDG_SESSION_ID"] = "2"

----------------------------------------------------------------------------
(* "uwsm stop", step by step: stop_wm, remove_units, reload_systemd, exit  *)

\* the calls of stop_wm that may raise: list_units_by_patterns, stop_unit,
\* list_systemd_jobs
StopWmFaults == {"none", "list_units", "stop_unit", "list_jobs"}

\* the files beside the generated ones in the unit directory of a stop
StopModeForeign == {UnitPath("foreign.service"), UnitPath("other.service"), UnitPath("stale.timer")}

InitStopMode ==
    /\ \E fresh \in BOOLEAN, F \in SUBSET StopModeForeign, wm \in {"inactive", "activating", "active"} :
        \E gen \in {IF fresh THEN generate_units(EmptyDict, PlainSway, TRUE, FALSE).tree
                    ELSE EmptyDict} :
          \E tr \in {Update(gen, Restrict(ForeignFiles, F))} :
            sm = [NoStopMode EXCEPT !.pc = "ready", !.wm = wm, !.before = tr,
                                    !.tree = tr, !.dirs = dirs_of(tr)]
    /\ SessionOff
    /\ EscapeOff
    /\ tree = EmptyDict
    /\ run = NoCommand
    /\ passes = 0
    /\ StopOff
    /\ ForkOff
    /\ SessionRunOff
    /\ HolderOff
    /\ StartersOff
    /\ WaitenvOff
    /\ JobWaitOff
    /\ UnitCallOff
    /\ RemovalOff
    /\ GraphOff

\* stop_wm() up to its wait loop: it lists the active and activating
\* compositor units, returns False when there is none and True, without a
\* job, in a dry run; otherwise it asks for the stop job
stop_wm(st, dry_run, fault) ==
    IF fault = "list_units" THEN [st EXCEPT !.stop_wm = "raised"]
    ELSE IF st.wm \notin {"active", "activating"} THEN [st EXCEPT !.stop_wm = "False"]
    ELSE IF dry_run THEN [st EXCEPT !.stop_wm = "True"]
    ELSE IF fault = "stop_unit" THEN [st EXCEPT !.stop_wm = "raised"]
    ELSE [st EXCEPT !.job = "queued"]

\* main, after stop_wm: stop_rc is 0 when it returned and 1 when it raised
stop_rc_always_zero(st) == [st EXCEPT !.pc = "remove", !.stop_rc = "0"]

stop_rc(st) ==
    [st EXCEPT !.pc = "remove",
               !.stop_rc = IF st.stop_wm = "raised" THEN "1" ELSE "0"]

\* main, "stop": stop_wm() is called
StopModeStopWm(dry_run, remove_units_arg, fault) ==
    /\ sm.pc = "ready"
    /\ \E st \in {stop_wm([sm EXCEPT !.dry_run = dry_run,
                                     !.remove_units = remove_units_arg],
                          dry_run, fault)} :
         sm' = IF st.job = "queued" THEN [st EXCEPT !.pc = "stop_wait"]
               ELSE stop_rc(st)
    /\ UNCHANGED <<session_state, escape_state, units_state, stop_state,
                   holder, starters, wenv, jobw, uc, rm, graph, ss, fk>>

\* the service manager runs the stop job
StopModeJobRuns ==
    /\ sm.job = "queued"
    /\ sm' = [sm EXCEPT !.job = "finished", !.wm = "inactive"]
    /\ UNCHANGED <<session_state, escape_state, units_state, stop_state,
                   holder, starters, wenv, jobw, uc, rm, graph, ss, fk>>

\* stop_wm's wait loop finds the job gone from the job list and returns
StopModeJobGone ==
    /\ sm.pc = "stop_wait"
    /\ sm.job = "finished"
    /\ sm' = stop_rc([sm EXCEPT !.stop_wm = "True"])
    /\ UNCHANGED <<session_state, escape_state, units_state, stop_state,
                   holder, starters, wenv, jobw, uc, rm, graph, ss, fk>>

\* list_systemd_jobs raises in the wait loop
StopModeWaitRaises ==
    /\ sm.pc = "stop_wait"
    /\ sm' = stop_rc([sm EXCEPT !.stop_wm = "raised"])
    /\ UNCHANGED <<session_state, escape_state, units_state, stop_state,
                   holder, starters, wenv, jobw, uc, rm, graph, ss, fk>>

\* main, "stop", after stop_wm: without -r it goes to its exit; with -r it
\* calls remove_units, whose error is not caught, and reloads if
\* UnitsState.changed
stop_remove_units(st) ==
    IF st.remove_units = "no" THEN [st EXCEPT !.pc = "exit"]
    ELSE LET r == remove_units_in_dir(st.tree, st.dirs, FALSE, st.remove_units, st.dry_run)
         IN  [st EXCEPT !.tree = r.tree, !.dirs = r.dirs, !.changed = r.changed,
                        !.job_at_removal = st.job,
                        !.removal = IF r.raised = "none" THEN "done" ELSE "raised",
                        !.pc = IF r.raised # "none" THEN "done"
                               ELSE IF r.changed THEN "reload" ELSE "exit",
                        !.exit = IF r.raised # "none" THEN "1" ELSE ""]

StopModeRemoveUnits ==
    /\ sm.pc = "remove"
    /\ sm' = stop_remove_units(sm)
    /\ UNCHANGED <<session_state, escape_state, units_state, stop_state,
                   holder, starters, wenv, jobw, uc, rm, graph, ss, fk>>

\* reload_systemd(): in a dry run it prints and clears the flag; otherwise
\* it asks for the reload, and what it raises is printed as a warning
StopModeReload ==
    /\ sm.pc = "reload"
    /\ \/ /\ sm.dry_run
          /\ sm' = [sm EXCEPT !.pc = "exit", !.changed = FALSE, !.reload = "printed"]
       \/ /\ ~sm.dry_run
          /\ sm' = [sm EXCEPT !.pc = "reload_wait", !.reload = "pending"]
       \/ /\ ~sm.dry_run
          /\ sm' = [sm EXCEPT !.pc = "exit", !.reload = "raised"]
    /\ UNCHANGED <<session_state, escape_state, units_state, stop_state,
                   holder, starters, wenv, jobw, uc, rm, graph, ss, fk>>

\* the service manager finishes the reload job
StopModeReloadJobDone ==
    /\ sm.reload = "pending"
    /\ sm' = [sm EXCEPT !.reload = "finished"]
    /\ UNCHANGED <<session_state, escape_state, units_state, stop_state,
                   holder, starters, wenv, jobw, uc, rm, graph, ss, fk>>

\* reload_systemd finds its job gone, or list_systemd_jobs raises
StopModeReloadReturn ==
    /\ sm.pc = "reload_wait"
    /\ \/ /\ sm.reload = "finished"
          /\ sm' = [sm EXCEPT !.pc = "exit", !.changed = FALSE, !.reload = "completed"]
       \/ sm' = [sm EXCEPT !.pc = "exit", !.reload = "raised"]
    /\ UNCHANGED <<session_state, escape_state, units_state, stop_state,
                   holder, starters, wenv, jobw, uc, rm, graph, ss, fk>>

\* sys.exit(stop_rc)
StopModeExit ==
    /\ sm.pc = "exit"
    /\ sm' = [sm EXCEPT !.pc = "done", !.exit = sm.stop_rc]
    /\ UNCHANGED <<session_state, escape_state, units_state, stop_state,
                   holder, starters, wenv, jobw, uc, rm, graph, ss, fk>>

NextStopMode ==
    \/ \E dry_run \in BOOLEAN, remove_units_arg \in {"no", "", "sway"}, fault \in StopWmFaults :
          StopModeStopWm(dry_run, remove_units_arg, fault)
    \/ StopModeJobRuns
    \/ StopModeJobGone
    \/ StopModeWaitRaises
    \/ StopModeRemoveUnits
    \/ StopModeReload
    \/ StopModeReloadJobDone
    \/ StopModeReloadReturn
    \/ StopModeExit

SpecStopMode == InitStopMode /\ [][NextStopMode]_vars

\* the service manager was asked to reload
ReloadAsked == sm.reload \in {"pending", "finished", "completed", "raised"}

----------------------------------------------------------------------------
(* One session, step by step: each ledger append is a read and a write,    *)
(* each export a step of its own, and finalize runs beside the watcher     *)

\* finalize calls followed in one session
MaxFinalizes == 2

\* the environments finalize is called with, among them one of a shell
\* that sets "_"
SessFinalizeEnvs == FinalizeEnvs \cup {[n \in {"WAYLAND_DISPLAY", "_"} |-> "1"]}

SessAdditionalVars == AdditionalVars \cup {{"_"}}

\* what the compositor and its children put into the activation
\* environment themselves (systemctl import-environment)
SessImports ==
    {[n \in {"WAYLAND_DISPLAY"} |-> "1"],
     [n \in {"WAYLAND_DISPLAY", "PWD"} |-> "3"]}

\* the runtime directory holding the session's cleanup file only
SessLedger(file) == [id \in WmIds |-> IF id = "sway" THEN file ELSE NoFile]

\* append_to_cleanup_file, the file being there: the names read from it
cleanup_file_read(file) == filter_varnames_set(LinesOf(file))

\* append_to_cleanup_file: the names not read before are written to the
\* file opened in append mode
cleanup_file_append_rewrite(file, names, current) ==
    FileOf(sorted(current \cup names))

cleanup_file_append(file, names, current) ==
    IF names \ current = {} THEN file
    ELSE FileOf(file.lines \o sorted(names \ current))

\* the names finalize exports: export_vars as it is
finalize_exported(export_vars) == export_vars

InitSession ==
    /\ \E env \in InitialEnvs, file \in {NoFile, StaleLedger} :
         ss = [NoSessionRun EXCEPT !.phase = "login", !.env = env, !.file = file]
    /\ SessionOff
    /\ EscapeOff
    /\ UnitsOff
    /\ StopOff
    /\ ForkOff
    /\ HolderOff
    /\ StartersOff
    /\ WaitenvOff
    /\ JobWaitOff
    /\ UnitCallOff
    /\ RemovalOff
    /\ GraphOff
    /\ StopModeOff

\* prepare_env up to and with its append_to_cleanup_file
SessPrepareLedger ==
    /\ ss.phase = "login"
    /\ \E env_pre \in {override_identity(filter_varnames_dict(ss.env), SessionVT, SessionId)} :
         \E raw_post \in SessionProbeResults(env_pre) :
           \E set_env \in {set_env_of(filter_varnames_dict(raw_post), env_pre)} :
             ss' = [ss EXCEPT
                      !.phase = "prepare_export",
                      !.set_env = set_env,
                      !.unset_varnames =
                          unset_varnames_of(env_pre, filter_varnames_dict(raw_post),
                                            Keys(filter_varnames_dict(ss.env))),
                      !.file = append_to_cleanup_file(
                                   ss.file, cleanup_varnames_of(set_env),
                                   FALSE, TRUE).file]
    /\ UNCHANGED <<session_state, escape_state, units_state, stop_state,
                   holder, starters, wenv, jobw, uc, rm, graph, sm, fk>>

\* prepare_env: set_systemd_vars and unset_systemd_vars; when one raises,
\* aux prepare-env runs cleanup_env and exits 1
SessPrepareExport(fault) ==
    /\ ss.phase = "prepare_export"
    /\ \E p \in {prepare_env_export(ss.env, EmptyDict, "dbus-broker.service",
                                    ss.file, fault, ss.set_env,
                                    ss.unset_varnames, NotAppended(ss.file))} :
         \E set \in {IF p.set_req.called /\ fault # "rpc_set"
                     THEN Keys(ss.set_env) ELSE {}} :
           IF p.outcome = "ok"
           THEN ss' = [ss EXCEPT !.phase = "prepared", !.env = p.env,
                                 !.exported = set, !.held = set]
           ELSE \E c \in {cleanup_env(p.env, EmptyDict, "dbus-broker.service",
                                      SessLedger(ss.file), "none")} :
                  ss' = [ss EXCEPT !.phase = "aborted", !.env = c.env,
                                   !.file = c.ledger["sway"],
                                   !.exported = set,
                                   !.held = set \cap Keys(c.env)]
    /\ UNCHANGED <<session_state, escape_state, units_state, stop_state,
                   holder, starters, wenv, jobw, uc, rm, graph, sm, fk>>

\* main, "aux exec": the readiness watcher is forked with its env_pre, and
\* the compositor starts
SessAuxExec ==
    /\ ss.phase = "prepared"
    /\ ss' = [ss EXCEPT !.phase = "running", !.wm = "activating",
                        !.wat = [NoAppender EXCEPT
                                    !.pc = "wait",
                                    !.env_pre = filter_varnames_dict(ss.env)]]
    /\ UNCHANGED <<session_state, escape_state, units_state, stop_state,
                   holder, starters, wenv, jobw, uc, rm, graph, sm, fk>>

\* the compositor puts variables into the activation environment
SessImport(vars_dict) ==
    /\ ss.phase = "running"
    /\ ss.wm # "inactive"
    /\ Update(ss.env, vars_dict) # ss.env
    /\ ss' = [ss EXCEPT !.env = Update(ss.env, vars_dict)]
    /\ UNCHANGED <<session_state, escape_state, units_state, stop_state,
                   holder, starters, wenv, jobw, uc, rm, graph, sm, fk>>

\* finalize up to the read of the cleanup file: it raises without
\* WAYLAND_DISPLAY, and exits 1 when the file is not there
SessFinalizeRead(penv, additional_vars) ==
    /\ ss.phase = "running"
    /\ ss.wm # "inactive"
    /\ ss.fin.pc = "off"
    /\ ss.finalizes < MaxFinalizes
    /\ \E export_vars \in {export_vars_of(penv, additional_vars)} :
         \E names \in {append_filtered(Keys(export_vars), FALSE)} :
           ss' = [ss EXCEPT
                    !.finalizes = @ + 1,
                    !.base = LinesOf(ss.file),
                    !.fin =
                       IF "WAYLAND_DISPLAY" \notin DOMAIN penv
                       THEN [NoAppender EXCEPT !.exit = "raised"]
                       ELSE IF names = {}
                       THEN [NoAppender EXCEPT !.pc = "export",
                                               !.export_vars = export_vars]
                       ELSE IF ~ss.file.exists
                       THEN [NoAppender EXCEPT !.exit = "1"]
                       ELSE [NoAppender EXCEPT
                                !.pc = "append", !.names = names,
                                !.current = cleanup_file_read(ss.file),
                                !.export_vars = export_vars]]
    /\ UNCHANGED <<session_state, escape_state, units_state, stop_state,
                   holder, starters, wenv, jobw, uc, rm, graph, sm, fk>>

\* finalize: the names not yet in the file are appended to it
SessFinalizeAppend ==
    /\ ss.fin.pc = "append"
    /\ ss' = [ss EXCEPT
                !.file = cleanup_file_append(ss.file, ss.fin.names, ss.fin.current),
                !.fin = [@ EXCEPT !.pc = "export"]]
    /\ UNCHANGED <<session_state, escape_state, units_state, stop_state,
                   holder, starters, wenv, jobw, uc, rm, graph, sm, fk>>

\* finalize: set_systemd_vars(export_vars), then the notification of an
\* activating unit; a failed call exports nothing
SessFinalizeExport(fault) ==
    /\ ss.fin.pc = "export"
    /\ IF fault = "rpc_set"
       THEN ss' = [ss EXCEPT !.fin = [NoAppender EXCEPT !.exit = "raised"]]
       ELSE ss' = [ss EXCEPT
                     !.env = SetEnvironment(ss.env, finalize_exported(ss.fin.export_vars)),
                     !.exported = @ \cup Keys(finalize_exported(ss.fin.export_vars)),
                     !.held = @ \cup Keys(finalize_exported(ss.fin.export_vars)),
                     !.wm = "active",
                     !.fin = [NoAppender EXCEPT !.exit = "0"]]
    /\ UNCHANGED <<session_state, escape_state, units_state, stop_state,
                   holder, starters, wenv, jobw, uc, rm, graph, sm, fk>>

\* finalize is killed between two of its steps
SessFinalizeKilled ==
    /\ ss.fin.pc \in {"append", "export"}
    /\ ss' = [ss EXCEPT !.fin = [NoAppender EXCEPT !.exit = "killed"]]
    /\ UNCHANGED <<session_state, escape_state, units_state, stop_state,
                   holder, starters, wenv, jobw, uc, rm, graph, sm, fk>>

\* the readiness watcher once waitenv has seen WAYLAND_DISPLAY: env_delta,
\* and append_to_cleanup_file up to the read of the file (or the writing of
\* a new one)
SessWatcherRead ==
    /\ ss.wat.pc = "wait"
    /\ "WAYLAND_DISPLAY" \in DOMAIN ss.env
    /\ \E names \in {append_filtered(
                        Keys(env_delta_of(filter_varnames_dict(ss.env), ss.wat.env_pre)),
                        TRUE)} :
         ss' = IF names = {}
               THEN [ss EXCEPT !.wat = [@ EXCEPT !.pc = "notify"]]
               ELSE IF ~ss.file.exists
               THEN [ss EXCEPT !.file = FileOf(sorted(names)),
                               !.wat = [@ EXCEPT !.pc = "notify", !.names = names]]
               ELSE [ss EXCEPT !.wat = [@ EXCEPT !.pc = "append", !.names = names,
                                                 !.current = cleanup_file_read(ss.file)]]
    /\ UNCHANGED <<session_state, escape_state, units_state, stop_state,
                   holder, starters, wenv, jobw, uc, rm, graph, sm, fk>>

\* the watcher: the names not yet in the file are appended to it
SessWatcherAppend ==
    /\ ss.wat.pc = "append"
    /\ ss' = [ss EXCEPT
                !.file = cleanup_file_append(ss.file, ss.wat.names, ss.wat.current),
                !.wat = [@ EXCEPT !.pc = "notify"]]
    /\ UNCHANGED <<session_state, escape_state, units_state, stop_state,
                   holder, starters, wenv, jobw, uc, rm, graph, sm, fk>>

\* the watcher declares an activating unit ready, and ends
SessWatcherNotify ==
    /\ ss.wat.pc = "notify"
    /\ ss' = [ss EXCEPT !.wm = "active", !.wat = [@ EXCEPT !.pc = "done"]]
    /\ UNCHANGED <<session_state, escape_state, units_state, stop_state,
                   holder, starters, wenv, jobw, uc, rm, graph, sm, fk>>

\* the preloader of another compositor fails, and its aux prepare-env runs
\* cleanup_env over every cleanup file
SessForeignCleanup ==
    /\ ss.phase = "running"
    /\ ~ss.interfered
    /\ \E c \in {cleanup_env(ss.env, EmptyDict, "dbus-broker.service",
                             SessLedger(ss.file), "none")} :
         ss' = [ss EXCEPT !.interfered = TRUE, !.env = c.env,
                          !.file = c.ledger["sway"],
                          !.held = @ \cap Keys(c.env)]
    /\ UNCHANGED <<session_state, escape_state, units_state, stop_state,
                   holder, starters, wenv, jobw, uc, rm, graph, sm, fk>>

\* the compositor unit stops, and with it what is left of its processes
SessUnitStop ==
    /\ ss.phase = "running"
    /\ ss' = [ss EXCEPT !.phase = "stopped", !.wm = "inactive",
                        !.fin = [NoAppender EXCEPT !.exit = ss.fin.exit],
                        !.wat = [NoAppender EXCEPT !.exit = ss.wat.exit,
                                                   !.names = ss.wat.names]]
    /\ UNCHANGED <<session_state, escape_state, units_state, stop_state,
                   holder, starters, wenv, jobw, uc, rm, graph, sm, fk>>

\* main, "aux cleanup-env", the compositor unit being inactive
SessCleanup(cfault) ==
    /\ ss.phase = "stopped"
    /\ \E c \in {cleanup_env(ss.env, EmptyDict, "dbus-broker.service",
                             SessLedger(ss.file), cfault)} :
         ss' = [ss EXCEPT !.phase = IF c.raised THEN "cleanup_failed" ELSE "cleaned",
                          !.env = c.env, !.file = c.ledger["sway"],
                          !.held = @ \cap Keys(c.env)]
    /\ UNCHANGED <<session_state, escape_state, units_state, stop_state,
                   holder, starters, wenv, jobw, uc, rm, graph, sm, fk>>

\* prepare_env is killed between its append and its export
SessPrepareKilled ==
    /\ ss.phase = "prepare_export"
    /\ ss' = [ss EXCEPT !.phase = "killed"]
    /\ UNCHANGED <<session_state, escape_state, units_state, stop_state,
                   holder, starters, wenv, jobw, uc, rm, graph, sm, fk>>

NextSession ==
    \/ SessPrepareLedger
    \/ \E fault \in {"none", "rpc_set", "rpc_unset"} : SessPrepareExport(fault)
    \/ SessPrepareKilled
    \/ SessAuxExec
    \/ \E vars_dict \in SessImports : SessImport(vars_dict)
    \/ \E penv \in SessFinalizeEnvs, additional_vars \in SessAdditionalVars :
          SessFinalizeRead(penv, additional_vars)
    \/ SessFinalizeAppend
    \/ \E fault \in FinalizeFaults : SessFinalizeExport(fault)
    \/ SessFinalizeKilled
    \/ SessWatcherRead
    \/ SessWatcherAppend
    \/ SessWatcherNotify
    \/ SessForeignCleanup
    \/ SessUnitStop
    \/ \E cfault \in CleanupFaults : SessCleanup(cfault)

SpecSession == InitSession /\ [][NextSession]_vars

\* C35 as stated: after a full session (prepare_env, any number of finalize
\* calls and watcher runs, then cleanup_env with the unit inactive) the
\* activation environment holds no name the tool exported during the
\* session, except names of never_cleanup.
C35_Original ==
    (ss.phase = "cleaned" /\ ~ss.interfered) =>
        (ss.exported \cap DOMAIN ss.env) \subseteq never_cleanup

\* C36 as stated: in prepare_env and in finalize every name about to be
\* exported, other than the names of never_cleanup, is recorded in the
\* session's cleanup file before SetEnvironment is called, so that a
\* failure or a kill between the two steps leaves no exported variable the
\* file does not cover; and a finalize that finds no cleanup file exits 1
\* without exporting anything.
C36_Original ==
    /\ []((~ss.interfered /\ ss.phase \notin {"off", "cleaned", "aborted"}) =>
             \A n \in ss.held \ never_cleanup : n \in LinesOf(ss.file))
    /\ [][(ss'.finalizes # ss.finalizes /\ ~ss.file.exists) =>
             /\ ss'.fin.pc = "off"
             /\ ss'.fin.exit \in {"1", "raised"}
             /\ ss'.env = ss.env
             /\ ss'.exported = ss.exported]_vars

\* C37: whatever the interleaving of the read and the append of a finalize
\* with those of the readiness watcher on the cleanup file prepare_env
\* created, the file holds afterwards the names each of the two was to
\* add, and no step of the running session takes a name out of it.
C37_AppendsKeepUnion ==
    /\ []((ss.phase = "running" /\ ~ss.interfered) =>
             /\ ss.fin.pc = "export" => ss.fin.names \subseteq LinesOf(ss.file)
             /\ ss.wat.pc \in {"notify", "done"} =>
                   ss.wat.names \subseteq LinesOf(ss.file))
    /\ [][(ss.phase = "running" /\ ss'.phase = "running" /\ ~ss'.interfered) =>
             LinesOf(ss.file) \subseteq LinesOf(ss'.file)]_vars

\* finalize and the watcher both read the file before either appended, and
\* each had a name to add the other had not
C37_Witness ==
    /\ ss.phase = "running"
    /\ ~ss.interfered
    /\ ss.fin.pc = "export"
    /\ ss.wat.pc = "notify"
    /\ ss.fin.current = ss.wat.current
    /\ ss.fin.names \ (ss.fin.current \cup ss.wat.names) # {}
    /\ ss.wat.names \ (ss.wat.current \cup ss.fin.names) # {}
    /\ (ss.fin.names \cup ss.wat.names \cup ss.base) \subseteq LinesOf(ss.file)

----------------------------------------------------------------------------
(* The two forks: the session holder of "uwsm start" and the readiness    *)
(* watcher of "uwsm aux exec", statement by statement, beside the parent   *)

\* what the parent becomes after the fork
fork_target(kind) == IF kind = "holder" THEN "systemctl" ELSE "compositor"

\* where an Exception raised in a child ends: the holder's is caught by
\* main's handler of "start", the watcher's by the handler inside the fork;
\* both print it and call sys.exit(1)
child_except_passes(kind) == "end_of_fork"

child_except(kind) == "exit1"

\* the child after an exception raised at one of its statements
child_raised(f, exc) ==
    [f EXCEPT !.child.raised = exc,
              !.child.pc = IF child_except(f.kind) = "exit1" THEN "done"
                           ELSE child_except(f.kind),
              !.child.image = IF child_except(f.kind) = "exit1" THEN "exit1"
                              ELSE f.child.image]

\* the child calls sys.exit(code) or os.execlp(helper)
child_ends(f, image) == [f EXCEPT !.child.pc = "done", !.child.image = image]

\* os.kill(mainpid, SIGTERM) from the child; a parent that is gone gets none
signal_parent(f, why) ==
    IF f.parent.image \in {"exit0", "exit1"} THEN f
    ELSE [f EXCEPT !.parent.signalled = why]

InitFork ==
    /\ \E kind \in {"holder", "watcher"} :
         fk = [NoFork EXCEPT
                 !.kind = kind,
                 !.child = [pc |-> IF kind = "holder" THEN "bus" ELSE "waitenv",
                            image |-> "uwsm", attempt |-> HolderAttempts,
                            raised |-> "none"],
                 !.parent = [pc |-> "end_of_fork", image |-> "uwsm",
                             signalled |-> "no"]]
    /\ SessionOff
    /\ EscapeOff
    /\ UnitsOff
    /\ StopOff
    /\ HolderOff
    /\ StartersOff
    /\ WaitenvOff
    /\ JobWaitOff
    /\ UnitCallOff
    /\ RemovalOff
    /\ GraphOff
    /\ StopModeOff
    /\ SessionRunOff

\* the code after the "if childpid == 0" block: os.execlp of systemctl
\* start --wait, or of the compositor's command line; when it raises, the
\* process prints the error and exits 1
ForkEndOfFork(who) ==
    /\ fk[who].pc = "end_of_fork"
    /\ \/ fk' = [fk EXCEPT ![who].pc = "done", ![who].image = fork_target(fk.kind)]
       \/ fk' = [fk EXCEPT ![who].pc = "done", ![who].image = "exit1"]
    /\ UNCHANGED <<session_state, escape_state, units_state, stop_state,
                   holder, starters, wenv, jobw, uc, rm, graph, sm, ss>>

\* the parent, or what it has become, ends
ForkParentEnds ==
    /\ fk.parent.image \in {"uwsm", "systemctl", "compositor"}
    /\ fk.child.pc # "off"
    /\ fk' = [fk EXCEPT !.parent.pc = "done",
                        !.parent.image = IF fk.parent.signalled # "no" THEN "exit1"
                                         ELSE "exit0"]
    /\ UNCHANGED <<session_state, escape_state, units_state, stop_state,
                   holder, starters, wenv, jobw, uc, rm, graph, sm, ss>>

\* the holder: signal.signal twice and DbusInteractions("session")
HolderChildBus ==
    /\ fk.kind = "holder"
    /\ fk.child.pc = "bus"
    /\ \/ fk' = [fk EXCEPT !.child.pc = "loop"]
       \/ fk' = child_raised(fk, "Exception")
    /\ UNCHANGED <<session_state, escape_state, units_state, stop_state,
                   holder, starters, wenv, jobw, uc, rm, graph, sm, ss>>

\* the holder, one pass of its loop: os.kill(mainpid, 0), the timeout, the
\* sleep and list_units_by_patterns
HolderChildAttempt ==
    /\ fk.kind = "holder"
    /\ fk.child.pc = "loop"
    /\ IF fk.parent.image \in {"exit0", "exit1"}
       THEN fk' = child_ends(fk, "exit0")
       ELSE IF holder_timed_out(fk.child.attempt)
       THEN fk' = child_ends(signal_parent(fk, "timeout"), "exit1")
       ELSE \/ fk' = child_raised(fk, "Exception")
            \/ fk' = [fk EXCEPT !.child.pc = "mainpid"]
            \/ fk' = [fk EXCEPT !.child.attempt = @ - 1]
    /\ UNCHANGED <<session_state, escape_state, units_state, stop_state,
                   holder, starters, wenv, jobw, uc, rm, graph, sm, ss>>

\* the holder: systemctl show --property MainPID, which may fail or give
\* no number
HolderChildMainPid ==
    /\ fk.kind = "holder"
    /\ fk.child.pc = "mainpid"
    /\ \/ fk' = child_raised(fk, "CalledProcessError")
       \/ fk' = child_ends(fk, "exit1")
       \/ fk' = [fk EXCEPT !.child.pc = "hold"]
    /\ UNCHANGED <<session_state, escape_state, units_state, stop_state,
                   holder, starters, wenv, jobw, uc, rm, graph, sm, ss>>

\* the holder: os.execlp of waitpid if there is one, else waitpid() and
\* sys.exit(0)
HolderChildHold ==
    /\ fk.kind = "holder"
    /\ fk.child.pc = "hold"
    /\ \/ fk' = child_ends(fk, "waitpid")
       \/ fk' = child_ends(fk, "exit0")
       \/ fk' = child_raised(fk, "OSError")
    /\ UNCHANGED <<session_state, escape_state, units_state, stop_state,
                   holder, starters, wenv, jobw, uc, rm, graph, sm, ss>>

\* the watcher: waitenv, which returns or raises on timeout, the settle
\* time and get_systemd_vars
WatcherChildWaitenv ==
    /\ fk.kind = "watcher"
    /\ fk.child.pc = "waitenv"
    /\ \/ fk' = child_raised(fk, "TimeoutError")
       \/ fk' = child_raised(fk, "Exception")
       \/ fk' = [fk EXCEPT !.child.pc = "append"]
       \/ fk' = [fk EXCEPT !.child.pc = "lookup"]
    /\ UNCHANGED <<session_state, escape_state, units_state, stop_state,
                   holder, starters, wenv, jobw, uc, rm, graph, sm, ss>>

\* the watcher, with an env_delta: append_to_cleanup_file; on
\* FileNotFoundError (the file removed between the check and the open) it
\* sends SIGTERM to the main process and exits 1
WatcherChildAppend ==
    /\ fk.kind = "watcher"
    /\ fk.child.pc = "append"
    /\ \/ fk' = [fk EXCEPT !.child.pc = "lookup"]
       \/ fk' = child_raised(fk, "OSError")
       \/ fk' = child_ends([signal_parent(fk, "FileNotFoundError")
                               EXCEPT !.child.raised = "FileNotFoundError"],
                           "exit1")
    /\ UNCHANGED <<session_state, escape_state, units_state, stop_state,
                   holder, starters, wenv, jobw, uc, rm, graph, sm, ss>>

\* the watcher: get_active_wm_unit, then os.execlp of systemd-notify for an
\* activating unit, sys.exit(0) otherwise
WatcherChildNotify ==
    /\ fk.kind = "watcher"
    /\ fk.child.pc = "lookup"
    /\ \/ fk' = child_raised(fk, "TypeError")
       \/ fk' = child_raised(fk, "OSError")
       \/ fk' = child_ends(fk, "systemd-notify")
       \/ fk' = child_ends(fk, "exit0")
    /\ UNCHANGED <<session_state, escape_state, units_state, stop_state,
                   holder, starters, wenv, jobw, uc, rm, graph, sm, ss>>

NextFork ==
    \/ \E who \in {"child", "parent"} : ForkEndOfFork(who)
    \/ ForkParentEnds
    \/ HolderChildBus
    \/ HolderChildAttempt
    \/ HolderChildMainPid
    \/ HolderChildHold
    \/ WatcherChildWaitenv
    \/ WatcherChildAppend
    \/ WatcherChildNotify

SpecFork == InitFork /\ [][NextFork]_vars

\* the ways a child may end: sys.exit, or the exec of its helper
ChildEndings == {"exit0", "exit1", "waitpid", "systemd-notify"}

\* C38 as stated: a forked child never continues into its parent's code:
\* on every path it ends by exiting or by the exec of its wait or notify
\* helper, it never execs systemctl start --wait or the compositor, and a
\* failure of the child only ends the child.
C38_Original ==
    /\ fk.child.image \notin {"systemctl", "compositor"}
    /\ fk.child.pc # "end_of_fork"
    /\ fk.child.pc = "done" => fk.child.image \in ChildEndings
    /\ fk.child.raised # "none" => fk.parent.signalled = "no"

\* C38: a forked child never continues into its parent's code: on every
\* path it ends by exiting or by the exec of its wait or notify helper, and
\* it never execs systemctl start --wait or the compositor.  An exception
\* in the child only ends the child with exit code 1, except a
\* FileNotFoundError of the watcher's append_to_cleanup_file, on which the
\* watcher sends SIGTERM to the main process first; the only other signal
\* to the parent is the holder's on its timeout.
C38_ChildNeverRunsParentCode ==
    /\ fk.child.image \notin {"systemctl", "compositor"}
    /\ fk.child.pc # "end_of_fork"
    /\ fk.child.pc = "done" => fk.child.image \in ChildEndings
    /\ fk.child.raised # "none" =>
          /\ fk.child.image = "exit1"
          /\ fk.parent.signalled # "no" =>
                (fk.kind = "watcher" /\ fk.child.raised = "FileNotFoundError"
                    /\ fk.parent.signalled = "FileNotFoundError")
    /\ fk.parent.signalled = "timeout" =>
          (fk.kind = "holder" /\ fk.child.image = "exit1" /\ fk.child.raised = "none")

\* the watcher's lookup raised after the parent had become the compositor:
\* the watcher exited 1 and the compositor was left alone
C38_Witness ==
    /\ fk.kind = "watcher"
    /\ fk.child.raised = "TypeError"
    /\ fk.child.pc = "done"
    /\ fk.child.image = "exit1"
    /\ fk.parent.image = "compositor"
    /\ fk.parent.signalled = "no"

----------------------------------------------------------------------------
(* Claims about a cleanup_env that fails, and about the two sets of the diff *)

\* C39: a cleanup_env that raised, while reading the activation
\* environment or while unsetting variables, has removed no cleanup file:
\* the files it found are still there with the names it read from them.
C39_FailedCleanupKeepsLedger ==
    (last.clean.called /\ last.clean.raised) =>
        /\ last.clean.found # {}
        /\ ledger = last.clean.ledger
        /\ cleanup_files(ledger) = last.clean.found
        /\ current_cleanup_varnames(ledger) = last.clean.read

\* aux cleanup-env asked for the unsetting, the call raised, and the
\* session's cleanup file is still there with its names
C39_Witness ==
    /\ last.op = "cleanup-env"
    /\ last.clean.raised
    /\ last.clean.unset_req.called
    /\ "sway" \in last.clean.found
    /\ ledger["sway"].exists
    /\ last.clean.unset_req.arg \cap LinesOf(ledger["sway"]) # {}

\* C40: in every prepare_env run the names of set_env and the names of
\* unset_varnames are disjoint, and so are the names passed to
\* SetEnvironment and those passed to UnsetEnvironment.
C40_SetUnsetDisjoint ==
    cap.phase = "done" =>
        /\ DOMAIN cap.set_env \cap cap.unset_varnames = {}
        /\ DOMAIN cap.set_req.arg \cap cap.unset_req.arg = {}

\* a capture whose probe changed a display the service manager held and
\* added another variable: the display is unset only, the added variable
\* set only
C40_Witness ==
    /\ cap.phase = "done"
    /\ "WAYLAND_DISPLAY" \in DOMAIN cap.snapshot
    /\ "WAYLAND_DISPLAY" \in DOMAIN cap.raw_post
    /\ cap.raw_post["WAYLAND_DISPLAY"] # cap.snapshot["WAYLAND_DISPLAY"]
    /\ "WAYLAND_DISPLAY" \in cap.unset_req.arg
    /\ "WAYLAND_DISPLAY" \notin DOMAIN cap.set_req.arg
    /\ "SSH_AUTH_SOCK" \notin DOMAIN cap.snapshot
    /\ "SSH_AUTH_SOCK" \in DOMAIN cap.set_req.arg

============================================================================
